---- MODULE Spec2Model ----
(***************************************************************************)
(* A model of oc_sql_helpers.normalizer.PLSQLNormalizer: the lexical state *)
(* machine that normalizes PL/SQL sources, and the predicates built on it, *)
(* and of oc_sql_helpers.wrapper.PLSQLWrapper: the decoding of a wrapped    *)
(* payload and unwrap_buf, the scan that finds and decodes wrapped objects.*)
(*                                                                         *)
(* A bytes value is a TLC string; offsets are Python's (0-based, the end   *)
(* exclusive), so Slice(s, a, b) is s[a:b].                                *)
(***************************************************************************)
EXTENDS Integers, Sequences, FiniteSets, TLC

\* A local variable: Body of the value v, which is computed once.
Bind(v, Body(_)) == CHOOSE r \in {Body(x) : x \in {v}} : TRUE

\* The least p in 0..n that satisfies P, or -1.
Leftmost(n, P(_)) ==
    IF \E p \in 0..n : P(p)
    THEN CHOOSE p \in 0..n : P(p) /\ \A q \in 0..(p - 1) : ~P(q)
    ELSE -1

\* ------------------------------------------------------------------ bytes

Slice(s, a, b) ==
    IF a >= Len(s) \/ a >= b THEN ""
    ELSE SubSeq(s, a + 1, IF b > Len(s) THEN Len(s) ELSE b)
ByteAt(s, i) == SubSeq(s, i + 1, i + 1)

\* \s of a bytes pattern, and what bytes.strip() removes.
SpaceBytes == {" ", "\t", "\n", "\r", "\f"}
IsSpace(c) == c \in SpaceBytes

LowerBytes == "abcdefghijklmnopqrstuvwxyz"
UpperBytes == "ABCDEFGHIJKLMNOPQRSTUVWXYZ"
DigitBytes == "0123456789"
OtherAsciiBytes == " \t\n\r\f!\"#$%&'()*+,-./:;<=>?@[\\]^_{|}~"

BytesOf(s) == {ByteAt(s, i) : i \in 0..(Len(s) - 1)}
LowerSet == BytesOf(LowerBytes)
UpperSet == BytesOf(UpperBytes)
WordSet == LowerSet \cup UpperSet \cup BytesOf(DigitBytes) \cup {"_"}
AsciiSet == WordSet \cup BytesOf(OtherAsciiBytes)

UpperMap == [c \in LowerSet |->
    ByteAt(UpperBytes, CHOOSE i \in 0..25 : ByteAt(LowerBytes, i) = c)]
LowerMap == [c \in UpperSet |->
    ByteAt(LowerBytes, CHOOSE i \in 0..25 : ByteAt(UpperBytes, i) = c)]

UpperByte(c) == IF c \in LowerSet THEN UpperMap[c] ELSE c
LowerByte(c) == IF c \in UpperSet THEN LowerMap[c] ELSE c

\* The concatenation of F(a), ..., F(b - 1), halving the range.
RECURSIVE Join(_, _, _)
Join(F(_), a, b) ==
    IF b <= a THEN ""
    ELSE IF b = a + 1 THEN F(a)
    ELSE Join(F, a, (a + b) \div 2) \o Join(F, (a + b) \div 2, b)

MapBytes(Op(_), s, i) == Join(LAMBDA k : Op(ByteAt(s, k)), i, Len(s))

\* bytes.upper(): ASCII letters only.
Upper(s) == MapBytes(UpperByte, s, 0)
Lower(s) == MapBytes(LowerByte, s, 0)

DropBytes(c, s, i) ==
    Join(LAMBDA k : IF ByteAt(s, k) = c THEN "" ELSE ByteAt(s, k), i, Len(s))

\* A bug line 419 could have: carriage returns are left in the line.
re_win_nl_kept(s) == s

\* _re_win_nl.sub(b'', s), and re.sub of every double quote by b''.
re_win_nl_sub(s) == DropBytes("\r", s, 0)
RemoveQuotes(s) == DropBytes("\"", s, 0)

\* The offset at or after i of the first byte that is not whitespace, and the
\* offset after the last such byte.
LeadingSpaces(s, i) ==
    CHOOSE j \in i..Len(s) :
        /\ j = Len(s) \/ ~IsSpace(ByteAt(s, j))
        /\ \A k \in i..(j - 1) : IsSpace(ByteAt(s, k))
TrailingStart(s) ==
    CHOOSE j \in 0..Len(s) :
        /\ j = 0 \/ ~IsSpace(ByteAt(s, j - 1))
        /\ \A k \in j..(Len(s) - 1) : IsSpace(ByteAt(s, k))

lstrip(s) == Slice(s, LeadingSpaces(s, 0), Len(s))
rstrip(s) == Slice(s, 0, TrailingStart(s))
strip(s) == rstrip(lstrip(s))

\* _re_end_space.search(s), _re_start_space.search(s)
re_end_space(s) == Len(s) > 0 /\ IsSpace(ByteAt(s, Len(s) - 1))
re_start_space(s) == Len(s) > 0 /\ IsSpace(ByteAt(s, 0))

\* _re_any_space.sub(b" ", s): every run of whitespace becomes one space.
AnySpaceSub(s, i) ==
    Join(LAMBDA k : IF ~IsSpace(ByteAt(s, k)) THEN ByteAt(s, k)
                    ELSE IF k > i /\ IsSpace(ByteAt(s, k - 1)) THEN ""
                    ELSE " ",
         i, Len(s))
re_any_space_sub(s) == AnySpaceSub(s, 0)

\* _re_any_space.search(s)
re_any_space_search(s) == \E i \in 0..(Len(s) - 1) : IsSpace(ByteAt(s, i))

\* list(_re_any_space.split(s)).pop(0): the bytes before the first whitespace.
FirstSpace(s) ==
    CHOOSE j \in 0..Len(s) :
        /\ j = Len(s) \/ IsSpace(ByteAt(s, j))
        /\ \A k \in 0..(j - 1) : ~IsSpace(ByteAt(s, k))
FirstWord(s) == Slice(s, 0, FirstSpace(s))

\* bytes.decode('utf-8') succeeds: ASCII bytes, and two-byte sequences of a
\* lead byte 0xC3 and a continuation byte 0xA9; any other byte (0xFF) fails.
Utf8Lead2 == {"Ã"}
Utf8Cont == {"©"}
Decodable(s) ==
    \A i \in 0..(Len(s) - 1) :
        \/ ByteAt(s, i) \in AsciiSet
        \/ ByteAt(s, i) \in Utf8Lead2 /\ i + 1 < Len(s) /\ ByteAt(s, i + 1) \in Utf8Cont
        \/ ByteAt(s, i) \in Utf8Cont /\ i > 0 /\ ByteAt(s, i - 1) \in Utf8Lead2

\* re.search(b'[^\w]', s)
HasNonWord(s) == \E i \in 0..(Len(s) - 1) : ByteAt(s, i) \notin WordSet

startswith(s, p) == Len(s) >= Len(p) /\ Slice(s, 0, Len(p)) = p
endswith(s, p) == Len(s) >= Len(p) /\ Slice(s, Len(s) - Len(p), Len(s)) = p

\* sub in s
Contains(s, sub) ==
    \E p \in 0..(Len(s) - Len(sub)) : Slice(s, p, p + Len(sub)) = sub

\* ------------------------------------------------------------ the patterns

\* A match object: start and end offsets and the captured delimiter of q'X.
NoMatch == [start |-> -1, end |-> -1, group |-> ""]
IsMatch(m) == m.start >= 0

\* A word of a keyword pattern at offset q, compared as re.I compares.
WordIsAt(w, line, q) ==
    /\ q + Len(w) <= Len(line)
    /\ \A k \in 0..(Len(w) - 1) : LowerByte(ByteAt(line, q + k)) = ByteAt(w, k)

\* (\s|$) at offset q: the offset after it, or -1. \s is tried first.
KeywordTail(line, q) ==
    IF q < Len(line) /\ IsSpace(ByteAt(line, q)) THEN q + 1
    ELSE IF q = Len(line) THEN q
    ELSE -1

\* (w1|w2|...)(\s|$) at offset q: the offset after it, or -1.
WordEnd(words, line, q) ==
    IF \E w \in words : WordIsAt(w, line, q) /\ KeywordTail(line, q + Len(w)) >= 0
    THEN KeywordTail(line, q + Len(CHOOSE w \in words :
             WordIsAt(w, line, q) /\ KeywordTail(line, q + Len(w)) >= 0))
    ELSE -1

\* (\s|^)(w1|w2|...)(\s|$) with re.I at offset p: the offset after the
\* match, or -1. \s is tried before ^.
KeywordAt(words, line, p) ==
    IF p < Len(line) /\ IsSpace(ByteAt(line, p)) /\ WordEnd(words, line, p + 1) >= 0
    THEN WordEnd(words, line, p + 1)
    ELSE IF p = 0 THEN WordEnd(words, line, 0)
    ELSE -1

\* A pattern that is a literal byte string.
LiteralAt(lit, line, p) ==
    IF p + Len(lit) <= Len(line) /\ Slice(line, p, p + Len(lit)) = lit
    THEN p + Len(lit) ELSE -1

\* q'(.) with re.I: the dot matches any byte but a newline.
QLiteralAt(line, p) ==
    IF p + 3 <= Len(line) /\ ByteAt(line, p) \in {"q", "Q"} /\ ByteAt(line, p + 1) = "'"
       /\ ByteAt(line, p + 2) # "\n"
    THEN p + 3 ELSE -1

\* (\s|^)\-\-
LineCommentAt(line, p) ==
    IF p < Len(line) /\ IsSpace(ByteAt(line, p)) /\ Slice(line, p + 1, p + 3) = "--"
    THEN p + 3
    ELSE IF p = 0 /\ Slice(line, 0, 2) = "--" THEN 2
    ELSE -1

\* A start pattern tried at offset p: the offset after the match, or -1.
StartAt(pat, line, p) ==
    IF pat.kind = "keyword" THEN KeywordAt(pat.words, line, p)
    ELSE IF pat.kind = "literal" THEN LiteralAt(pat.lit, line, p)
    ELSE IF pat.kind = "qliteral" THEN QLiteralAt(line, p)
    ELSE LineCommentAt(line, p)

\* Pattern.search(line): the leftmost match.
Search(pat, line) ==
    Bind(Leftmost(Len(line) - 1, LAMBDA p : StartAt(pat, line, p) >= 0), LAMBDA start :
    IF start < 0 THEN NoMatch
    ELSE [start |-> start,
          end |-> StartAt(pat, line, start),
          group |-> IF pat.kind = "qliteral" THEN ByteAt(line, start + 2) ELSE ""])

\* An end pattern is kept as the bytes re.compile is given; None is the empty
\* string. The bytes from offset i on are tried at offset p of the line: a
\* backslash makes the next byte stand for itself, a bare dot stands for any
\* byte but a newline, any other byte for itself. The result is the offset
\* after the match, or -1.
None == ""
RECURSIVE PatternAt(_, _, _, _)
PatternAt(src, i, line, p) ==
    IF i >= Len(src) THEN p
    ELSE IF ByteAt(src, i) = "\\"
    THEN IF p < Len(line) /\ ByteAt(line, p) = ByteAt(src, i + 1)
         THEN PatternAt(src, i + 2, line, p + 1) ELSE -1
    ELSE IF ByteAt(src, i) = "."
    THEN IF p < Len(line) /\ ByteAt(line, p) # "\n"
         THEN PatternAt(src, i + 1, line, p + 1) ELSE -1
    ELSE IF p < Len(line) /\ ByteAt(line, p) = ByteAt(src, i)
         THEN PatternAt(src, i + 1, line, p + 1) ELSE -1

re_endobj_search(src, line) ==
    Bind(Leftmost(Len(line) - 1, LAMBDA p : PatternAt(src, 0, line, p) >= 0), LAMBDA start :
    IF start < 0 THEN NoMatch
    ELSE [start |-> start, end |-> PatternAt(src, 0, line, start), group |-> ""])

Keyword(ws) == [kind |-> "keyword", words |-> ws, lit |-> "", end |-> None]

\* _re_objects_decl, in the dictionary's order.
re_objects_decl == <<
    [context |-> "create", regs |-> << Keyword({"create"}) >>],
    [context |-> "or", regs |-> << Keyword({"or"}) >>],
    [context |-> "replace", regs |-> << Keyword({"replace"}) >>],
    [context |-> "object_type",
     regs |-> << Keyword({"function", "procedure", "package", "body", "trigger"}) >>],
    [context |-> "as", regs |-> << Keyword({"as", "is"}) >>],
    [context |-> "wrapped", regs |-> << Keyword({"wrapped"}) >> ] >>

\* _re_objects_body, in the dictionary's order. The end of the q'X literal is
\* built by _make_reg_end; "%s'" marks it.
re_objects_body == <<
    [context |-> "object_name",
     regs |-> << [kind |-> "literal", words |-> {}, lit |-> "\"", end |-> "\""] >>],
    [context |-> "literal",
     regs |-> << [kind |-> "qliteral", words |-> {}, lit |-> "", end |-> "%s'"],
                 [kind |-> "literal", words |-> {}, lit |-> "'", end |-> "'"] >>],
    [context |-> "comment",
     regs |-> << [kind |-> "linecomment", words |-> {}, lit |-> "", end |-> "\n"],
                 [kind |-> "literal", words |-> {}, lit |-> "/*", end |-> "\\*\\/"] >>] >>

\* A bug the table of substitutes could have: the dot is not escaped.
Substitute_bare_dot(x) ==
    CASE x \in {"[", "]"} -> "\\]"
      [] x \in {"{", "}"} -> "\\}"
      [] x \in {"<", ">"} -> "\\>"
      [] x \in {"(", ")"} -> "\\)"
      [] x \in {"?", "^", "$", "\\", "*", "+", "|"} -> "\\" \o x
      [] OTHER -> x

\* The substitutes of the q'X literal: an opening bracket gives its closing
\* bracket, and every byte of the table is written after a backslash. A byte
\* that is not in the table is left as it is.
Substitute(x) ==
    CASE x \in {"[", "]"} -> "\\]"
      [] x \in {"{", "}"} -> "\\}"
      [] x \in {"<", ">"} -> "\\>"
      [] x \in {"(", ")"} -> "\\)"
      [] x \in {"?", ".", "^", "$", "\\", "*", "+", "|"} -> "\\" \o x
      [] OTHER -> x

\* _make_reg_end
make_reg_end(regdict, match) ==
    IF regdict.end = None THEN None
    ELSE IF regdict.end # "%s'" THEN regdict.end
    ELSE Substitute(match.group) \o "'"

\* ------------------------------------------------------------ the searches

\* The result of a dictionary search; NoResult is Python's None.
NoResult == [context |-> None, match |-> NoMatch, end |-> None]

\* A bug lines 221-223 could have: the start offsets are not compared, the
\* last pattern that matches is the result.
earlier_not_compared(k, reg, m, result) ==
    IF ~IsMatch(m) THEN result
    ELSE [context |-> k, match |-> m, end |-> make_reg_end(reg, m)]

\* _search_regexp_on_dict: the inner loop, over the patterns of one key. A
\* match replaces the result only when it starts strictly earlier.
earlier(k, reg, m, result) ==
    IF ~IsMatch(m) THEN result
    ELSE IF result # NoResult /\ m.start >= result.match.start THEN result
    ELSE [context |-> k, match |-> m, end |-> make_reg_end(reg, m)]

RECURSIVE SearchRegs(_, _, _, _, _)
SearchRegs(line, k, regs, i, result) ==
    IF i > Len(regs) THEN result
    ELSE Bind(earlier(k, regs[i], Search(regs[i], line), result), LAMBDA r :
         SearchRegs(line, k, regs, i + 1, r))

\* _search_regexp_on_dict: the outer loop, over the keys in their order.
RECURSIVE SearchKeys(_, _, _, _)
SearchKeys(line, regxps, j, result) ==
    IF j > Len(regxps) THEN result
    ELSE Bind(SearchRegs(line, regxps[j].context, regxps[j].regs, 1, result), LAMBDA r :
         SearchKeys(line, regxps, j + 1, r))

search_regexp_on_dict(line, regxps) == SearchKeys(line, regxps, 1, NoResult)

search_declaration_regx(line) == search_regexp_on_dict(line, re_objects_decl)
search_body_regx(line) == search_regexp_on_dict(line, re_objects_body)

\* _search_combine_regex: the declaration dictionary first, the body
\* dictionary's match only when it starts strictly earlier.
search_combine_regex(line) ==
    Bind(search_declaration_regx(line), LAMBDA d :
    Bind(search_body_regx(line), LAMBDA b :
    IF d = NoResult THEN b
    ELSE IF b = NoResult THEN d
    ELSE IF b.match.start < d.match.start THEN b
    ELSE d))

\* ----------------------------------------------------------- the instance

\* PLSQLNormalizationFlags
Flags == {"no_comments", "no_spaces", "uppercase", "no_literals", "comments_only"}

\* The exceptions a call can end with; NoExc is a normal return.
NoExc == [type |-> "", msg |-> ""]
NormalizationError(m) == [type |-> "PLSQLNormalizationError", msg |-> m]
UnicodeDecodeError == [type |-> "UnicodeDecodeError", msg |-> "object_name"]
RecursionError == [type |-> "RecursionError", msg |-> "stack"]

\* The interpreter's stack budget, in frames of _normalize_line.
StackLimit == 12

\* The fields of a PLSQLNormalizer after _reset. None is the empty string:
\* the code tests object_type, object_name and re_endobj for truth only.
\* entered_from is a history field, not one of the code: the contexts that
\* were active when lines 507-530 set a context flag.
ResetState == [
    comment_started |-> FALSE,
    literal_started |-> FALSE,
    object_name_started |-> FALSE,
    wrapped |-> FALSE,
    create_found |-> FALSE,
    or_found |-> FALSE,
    replace_found |-> FALSE,
    as_found |-> FALSE,
    object_type |-> None,
    object_name |-> None,
    re_endobj |-> None,
    process_flags |-> {},
    object_name_append |-> FALSE,
    object_name_remove_quotes |-> FALSE,
    entered_from |-> {}]

reset_parse_flags(self) ==
    [self EXCEPT !.comment_started = FALSE,
                 !.literal_started = FALSE,
                 !.object_name_started = FALSE]

\* A bug _reset could have: the two fields of the quoted name, which are not
\* attributes of the class, are left as the last call set them.
reset_name_fields_kept(self) ==
    [reset_parse_flags(self) EXCEPT
        !.wrapped = FALSE,
        !.create_found = FALSE,
        !.or_found = FALSE,
        !.replace_found = FALSE,
        !.as_found = FALSE,
        !.object_type = None,
        !.object_name = None,
        !.re_endobj = None,
        !.process_flags = {},
        !.entered_from = {}]

\* _reset on an instance in any state.
reset(self) ==
    [reset_parse_flags(self) EXCEPT
        !.wrapped = FALSE,
        !.create_found = FALSE,
        !.or_found = FALSE,
        !.replace_found = FALSE,
        !.as_found = FALSE,
        !.object_type = None,
        !.object_name = None,
        !.re_endobj = None,
        !.process_flags = {},
        !.object_name_append = FALSE,
        !.object_name_remove_quotes = FALSE,
        !.entered_from = {}]

parsecontext(self) ==
    IF self.comment_started THEN "comment"
    ELSE IF self.literal_started THEN "literal"
    ELSE IF self.object_name_started THEN "object_name"
    ELSE None

\* A bug _anything_started could have: the quoted object name is forgotten.
anything_started_name_forgotten(self) ==
    (self.comment_started \/ self.literal_started) /\ self.re_endobj # None

anything_started(self) ==
    (self.comment_started \/ self.literal_started \/ self.object_name_started)
    /\ self.re_endobj # None

\* A bug _check_flags could have: comments_only is not checked.
check_flags_first_only(self) ==
    IF "no_comments" \notin self.process_flags /\ "no_spaces" \in self.process_flags
    THEN NormalizationError("no_spaces without no_comments")
    ELSE NoExc

\* _check_flags: the exception it raises, or NoExc.
check_flags(self) ==
    IF "no_comments" \notin self.process_flags /\ "no_spaces" \in self.process_flags
    THEN NormalizationError("no_spaces without no_comments")
    ELSE IF "comments_only" \in self.process_flags /\ Cardinality(self.process_flags) > 1
    THEN NormalizationError("comments_only is incompatible")
    ELSE NoExc

\* _join_line
join_line(self, b_before, b_joining, b_after, context, start) ==
    IF "no_spaces" \notin self.process_flags
       /\ (self.as_found \/ self.wrapped
           \/ (context = "comment" /\ "comments_only" \in self.process_flags))
    THEN b_before \o b_joining \o b_after
    ELSE
    LET see_start_context == context \in {"object_name", "literal", "comment"}
    IN
    Bind(IF ~see_start_context \/ (see_start_context /\ start)
         THEN re_any_space_sub(b_before) ELSE b_before, LAMBDA before1 :
    Bind(IF ~see_start_context THEN re_any_space_sub(b_joining) ELSE b_joining,
         LAMBDA joining1 :
    Bind(IF (re_end_space(before1) /\ ~see_start_context) \/ (see_start_context /\ start)
         THEN lstrip(joining1) ELSE joining1, LAMBDA joining2 :
    Bind(before1 \o joining2, LAMBDA result :
    (IF re_end_space(result) /\ re_start_space(b_after)
        /\ (~see_start_context \/ (see_start_context /\ ~start) \/ joining2 = "")
     THEN rstrip(result) ELSE result) \o b_after))))

\* _append_object_name: the instance after it and the exception it raises.
append_object_name(self, line) ==
    Bind(IF self.object_name_remove_quotes THEN RemoveQuotes(Upper(line)) ELSE Upper(line),
         LAMBDA dequoted :
    Bind(IF ~self.object_name_started THEN FirstWord(dequoted) ELSE dequoted,
         LAMBDA to_append :
    Bind(IF ~self.object_name_started
         THEN [self EXCEPT !.object_name_append = re_any_space_search(line)]
         ELSE self, LAMBDA self1 :
    IF to_append = "" THEN [self |-> self1, exc |-> NoExc]
    ELSE IF ~Decodable(to_append)
    THEN [self |-> self1, exc |-> NormalizationError("non-ascii object name")]
    ELSE [self |-> [self1 EXCEPT !.object_name = @ \o to_append], exc |-> NoExc])))

\* What a method returns: the instance after it, its value, its exception.
Return(self, ret) == [self |-> self, ret |-> ret, exc |-> NoExc]
Raise(self, exc) == [self |-> self, ret |-> "", exc |-> exc]

\* A bug lines 394-408 could have: the body is not upper-cased.
filter_code_case_kept(self, line) ==
    LET declaring == self.create_found /\ ~self.as_found
    IN
    Bind(IF startswith(Upper(lstrip(line)), "CREATE") THEN lstrip(line) ELSE line,
         LAMBDA l1 :
    Bind(IF declaring THEN Upper(l1) ELSE l1, LAMBDA l2 :
    IF "no_spaces" \in self.process_flags \/ declaring THEN re_any_space_sub(l2) ELSE l2))

\* A bug lines 394-408 could have: runs of whitespace are kept as they are.
filter_code_spaces_kept(self, line) ==
    LET declaring == self.create_found /\ ~self.as_found
    IN
    Bind(IF startswith(Upper(lstrip(line)), "CREATE") THEN lstrip(line) ELSE line,
         LAMBDA l1 :
    IF "uppercase" \in self.process_flags \/ declaring THEN Upper(l1) ELSE l1)

\* The plain-code end of _filter_content (lines 394-408).
filter_code(self, line) ==
    LET declaring == self.create_found /\ ~self.as_found
    IN
    Bind(IF startswith(Upper(lstrip(line)), "CREATE") THEN lstrip(line) ELSE line,
         LAMBDA l1 :
    Bind(IF "uppercase" \in self.process_flags \/ declaring THEN Upper(l1) ELSE l1,
         LAMBDA l2 :
    IF "no_spaces" \in self.process_flags \/ declaring THEN re_any_space_sub(l2) ELSE l2))

\* The object-name end of _filter_content (lines 377-385).
filter_object_name(self, line) ==
    Bind(IF "uppercase" \in self.process_flags \/ (self.create_found /\ ~self.as_found)
         THEN Upper(line) ELSE line, LAMBDA l1 :
    IF self.object_name_remove_quotes THEN RemoveQuotes(l1) ELSE l1)

\* Lines 372-408 of _filter_content: what is kept of code after CREATE.
filter_declared(self, line) ==
    IF self.object_name_started THEN Return(self, filter_object_name(self, line))
    ELSE IF self.literal_started
    THEN IF "no_literals" \in self.process_flags THEN Return(self, "")
         ELSE Return(self, line)
    ELSE Return(self, filter_code(self, line))

\* A bug lines 349-358 could have: with comments_only, code is written too.
filter_content_code_kept(self, line) ==
    IF "comments_only" \in self.process_flags
    THEN IF self.comment_started THEN Return(self, line)
         ELSE IF self.object_name_append
         THEN Bind(append_object_name(self, line), LAMBDA a :
              IF a.exc # NoExc THEN Raise(a.self, a.exc) ELSE Return(a.self, ""))
         ELSE Return(self, line)
    ELSE IF self.comment_started
    THEN IF "no_comments" \in self.process_flags THEN Return(self, "")
         ELSE IF ~self.as_found /\ ~self.wrapped THEN Return(self, "")
         ELSE Return(self, line)
    ELSE IF ~self.create_found THEN Return(self, "")
    ELSE IF self.object_name_append
    THEN Bind(append_object_name(self, line), LAMBDA a :
         IF a.exc # NoExc THEN Raise(a.self, a.exc) ELSE filter_declared(a.self, line))
    ELSE filter_declared(self, line)

\* A bug lines 359-366 could have: the comments before AS are kept too.
filter_content_comments_kept(self, line) ==
    IF "comments_only" \in self.process_flags
    THEN IF self.comment_started THEN Return(self, line)
         ELSE IF self.object_name_append
         THEN Bind(append_object_name(self, line), LAMBDA a :
              IF a.exc # NoExc THEN Raise(a.self, a.exc) ELSE Return(a.self, ""))
         ELSE Return(self, "")
    ELSE IF self.comment_started
    THEN IF "no_comments" \in self.process_flags THEN Return(self, "")
         ELSE Return(self, line)
    ELSE IF ~self.create_found THEN Return(self, "")
    ELSE IF self.object_name_append
    THEN Bind(append_object_name(self, line), LAMBDA a :
         IF a.exc # NoExc THEN Raise(a.self, a.exc) ELSE filter_declared(a.self, line))
    ELSE filter_declared(self, line)

\* _filter_content
filter_content(self, line) ==
    IF "comments_only" \in self.process_flags
    THEN IF self.comment_started THEN Return(self, line)
         ELSE IF self.object_name_append
         THEN Bind(append_object_name(self, line), LAMBDA a :
              IF a.exc # NoExc THEN Raise(a.self, a.exc) ELSE Return(a.self, ""))
         ELSE Return(self, "")
    ELSE IF self.comment_started
    THEN IF "no_comments" \in self.process_flags THEN Return(self, "")
         ELSE IF ~self.as_found /\ ~self.wrapped THEN Return(self, "")
         ELSE Return(self, line)
    ELSE IF ~self.create_found THEN Return(self, "")
    ELSE IF self.object_name_append
    THEN Bind(append_object_name(self, line), LAMBDA a :
         IF a.exc # NoExc THEN Raise(a.self, a.exc) ELSE filter_declared(a.self, line))
    ELSE filter_declared(self, line)

\* ------------------------------------------------------- _normalize_line

\* Lines 507-585 of _normalize_line: the transition on the context matched
\* with no context active. The instance and the joining bytes after it, and
\* the exception it raises.
Moved(self, joining) == [self |-> self, joining |-> joining, exc |-> NoExc]
Failed(self, joining, m) == [self |-> self, joining |-> joining, exc |-> NormalizationError(m)]

declare_object_type(self, joining) ==
    Bind(Upper(joining), LAMBDA upper :
    IF self.object_type = None
    THEN Moved([self EXCEPT !.object_type = strip(upper)], upper)
    ELSE IF strip(upper) = "BODY" /\ self.object_type = "PACKAGE"
    THEN Moved([self EXCEPT !.object_type = "PACKAGE BODY"], upper)
    ELSE Failed(self, upper, "unsupported object type"))

\* A bug lines 563-577 could have: the object name is not required.
declare_as_wrapped_unnamed(self, context, joining) ==
    IF self.object_type = None
    THEN Failed(self, joining, "object type is not detected")
    ELSE IF context = "as"
    THEN Moved([self EXCEPT !.as_found = TRUE], Upper(joining))
    ELSE Moved([self EXCEPT !.wrapped = TRUE], Upper(joining))

declare_as_wrapped(self, context, joining) ==
    IF self.object_type = None
    THEN Failed(self, joining, "object type is not detected")
    ELSE IF self.object_name = None
    THEN Failed(self, joining, "object name is not parsed")
    ELSE IF context = "as"
    THEN Moved([self EXCEPT !.as_found = TRUE], Upper(joining))
    ELSE Moved([self EXCEPT !.wrapped = TRUE], Upper(joining))

\* A bug lines 550-553 could have: REPLACE is accepted without OR.
declare_replace_unchecked(self, joining) ==
    Moved([self EXCEPT !.replace_found = TRUE], joining)

declare_replace(self, joining) ==
    IF ~self.or_found THEN Failed(self, joining, "replace found before or")
    ELSE Moved([self EXCEPT !.replace_found = TRUE], joining)

\* A bug lines 521-527 could have: the bytes between the quotes are not
\* looked at.
enter_object_name_any_bytes(self, joining, line_after) ==
    IF self.create_found /\ ~self.as_found
    THEN Moved([self EXCEPT
             !.object_name_started = TRUE,
             !.object_name_append = TRUE,
             !.object_name_remove_quotes =
                 IF IsMatch(re_endobj_search(self.re_endobj, line_after))
                 THEN TRUE ELSE @], joining)
    ELSE Moved([self EXCEPT !.object_name_started = TRUE], joining)

enter_object_name(self, joining, line_after) ==
    IF self.create_found /\ ~self.as_found
    THEN Bind(re_endobj_search(self.re_endobj, line_after), LAMBDA end_object_name :
         Moved([self EXCEPT
             !.object_name_started = TRUE,
             !.object_name_append = TRUE,
             !.object_name_remove_quotes =
                 IF IsMatch(end_object_name)
                    /\ ~HasNonWord(Slice(line_after, 0, end_object_name.start))
                 THEN TRUE ELSE @], joining))
    ELSE Moved([self EXCEPT !.object_name_started = TRUE], joining)

\* The history of the contexts a context is entered from.
entering(self) == [self EXCEPT !.entered_from = @ \cup {parsecontext(self)}]

\* A bug lines 578-585 could have: no keyword is refused in the body.
dispatch_body_unchecked(self, context, joining, line_after) ==
    IF context = "comment"
    THEN Moved([entering(self) EXCEPT !.comment_started = TRUE],
               IF "comments_only" \in self.process_flags THEN lstrip(joining) ELSE joining)
    ELSE IF context = "object_name"
    THEN enter_object_name(entering(self), joining, line_after)
    ELSE IF context = "literal"
    THEN Moved([entering(self) EXCEPT !.literal_started = TRUE], joining)
    ELSE IF ~self.create_found
    THEN IF context = "create" THEN Moved([self EXCEPT !.create_found = TRUE], joining)
         ELSE Moved(self, joining)
    ELSE IF ~self.as_found
    THEN IF context = "or" THEN Moved([self EXCEPT !.or_found = TRUE], joining)
         ELSE IF context = "replace" THEN declare_replace(self, joining)
         ELSE IF context = "object_type" THEN declare_object_type(self, joining)
         ELSE IF context \in {"as", "wrapped"} THEN declare_as_wrapped(self, context, joining)
         ELSE IF context = "create" THEN Failed(self, joining, "create is duplicated")
         ELSE Moved(self, joining)
    ELSE Moved(self, joining)

\* A bug lines 575-585 could have: WRAPPED is taken in the body too.
dispatch_wrapped_in_body(self, context, joining, line_after) ==
    IF context = "comment"
    THEN Moved([entering(self) EXCEPT !.comment_started = TRUE],
               IF "comments_only" \in self.process_flags THEN lstrip(joining) ELSE joining)
    ELSE IF context = "object_name"
    THEN enter_object_name(entering(self), joining, line_after)
    ELSE IF context = "literal"
    THEN Moved([entering(self) EXCEPT !.literal_started = TRUE], joining)
    ELSE IF ~self.create_found
    THEN IF context = "create" THEN Moved([self EXCEPT !.create_found = TRUE], joining)
         ELSE Moved(self, joining)
    ELSE IF ~self.as_found
    THEN IF context = "or" THEN Moved([self EXCEPT !.or_found = TRUE], joining)
         ELSE IF context = "replace" THEN declare_replace(self, joining)
         ELSE IF context = "object_type" THEN declare_object_type(self, joining)
         ELSE IF context \in {"as", "wrapped"} THEN declare_as_wrapped(self, context, joining)
         ELSE IF context = "create" THEN Failed(self, joining, "create is duplicated")
         ELSE Moved(self, joining)
    ELSE IF context \in {"create", "replace"}
    THEN Failed(self, joining, "keyword inside an object body")
    ELSE IF context = "wrapped"
    THEN Moved([self EXCEPT !.wrapped = TRUE], Upper(joining))
    ELSE Moved(self, joining)

dispatch(self, context, joining, line_after) ==
    IF context = "comment"
    THEN Moved([entering(self) EXCEPT !.comment_started = TRUE],
               IF "comments_only" \in self.process_flags THEN lstrip(joining) ELSE joining)
    ELSE IF context = "object_name"
    THEN enter_object_name(entering(self), joining, line_after)
    ELSE IF context = "literal"
    THEN Moved([entering(self) EXCEPT !.literal_started = TRUE], joining)
    ELSE IF ~self.create_found
    THEN IF context = "create" THEN Moved([self EXCEPT !.create_found = TRUE], joining)
         ELSE Moved(self, joining)
    ELSE IF ~self.as_found
    THEN IF context = "or" THEN Moved([self EXCEPT !.or_found = TRUE], joining)
         ELSE IF context = "replace" THEN declare_replace(self, joining)
         ELSE IF context = "object_type" THEN declare_object_type(self, joining)
         ELSE IF context \in {"as", "wrapped"} THEN declare_as_wrapped(self, context, joining)
         ELSE IF context = "create" THEN Failed(self, joining, "create is duplicated")
         ELSE Moved(self, joining)
    ELSE IF context \in {"create", "replace", "wrapped"}
    THEN Failed(self, joining, "keyword inside an object body")
    ELSE Moved(self, joining)

\* The joining bytes are filtered unless they open or close a literal.
filter_joining(self, context, joining) ==
    IF context # "literal" \/ "comments_only" \in self.process_flags
    THEN filter_content(self, joining)
    ELSE Return(self, joining)

RECURSIVE normalize_line(_, _, _)

\* Lines 449-465: what closing the context does to the rest of the line, to
\* the closing bytes and to the instance.
\* A bug lines 441-455 could have: the closing bytes stay in the rest.
closed_line_after_closing(self, context, joining_orig, line_after) ==
    joining_orig \o line_after

\* A bug lines 451-455 could have: no newline is put before the rest.
closed_line_after_bare(self, context, joining_orig, line_after) == line_after

closed_line_after(self, context, joining_orig, line_after) ==
    IF context = "comment"
       /\ ("no_comments" \in self.process_flags \/ ~self.as_found)
       /\ endswith(joining_orig, "\n")
    THEN "\n" \o line_after ELSE line_after

closed_joining(self, context, joining) ==
    IF context = "comment" /\ "comments_only" \in self.process_flags
       /\ ~endswith(joining, "\n")
    THEN joining \o "\n" ELSE joining

closed_self(self, context) ==
    IF context = "object_name"
    THEN [reset_parse_flags(self) EXCEPT !.object_name_remove_quotes = FALSE]
    ELSE reset_parse_flags(self)

\* The line is dealt with as a whole (res is what _normalize_line returns),
\* or it is split at a match: the instance, the filtered bytes before the
\* match and of the match, the rest of the line, and the context.
Whole(res) ==
    [done |-> TRUE, res |-> res, self |-> res.self, before |-> "", joining |-> "",
     line_after |-> "", context |-> None]
Split(self, before, joining, line_after, context) ==
    [done |-> FALSE, res |-> Return(self, ""), self |-> self, before |-> before,
     joining |-> joining, line_after |-> line_after, context |-> context]

\* Lines 434-465: a context is active and its end is searched: the line up
\* to the recursive call of line 467.
close_split(self, line) ==
    Bind(re_endobj_search(self.re_endobj, line), LAMBDA match :
    IF ~IsMatch(match) THEN Whole(filter_content(self, line))
    ELSE
    Bind(filter_content(self, Slice(line, 0, match.start)), LAMBDA before :
    IF before.exc # NoExc THEN Whole(before)
    ELSE
    Bind(parsecontext(before.self), LAMBDA context :
    Bind(Slice(line, match.start, match.end), LAMBDA joining_orig :
    Bind(filter_joining(before.self, context, joining_orig), LAMBDA joining :
    IF joining.exc # NoExc THEN Whole(joining)
    ELSE
    Bind(closed_self(joining.self, context), LAMBDA self1 :
    Split(self1, before.ret, closed_joining(self1, context, joining.ret),
          closed_line_after(self1, context, joining_orig, Slice(line, match.end, Len(line))),
          context)))))))

\* Lines 434-468: the rest of the line is normalized and joined.
close_context(self, line, depth) ==
    Bind(close_split(self, line), LAMBDA sp :
    IF sp.done THEN sp.res
    ELSE
    Bind(normalize_line(sp.self, sp.line_after, depth + 1), LAMBDA after :
    IF after.exc # NoExc THEN after
    ELSE Return(after.self,
             join_line(after.self, sp.before, sp.joining, after.ret, sp.context, FALSE))))

\* Lines 478-489: nothing is found in the line. What is left of a line after
\* the object type is the object name.
no_context(self, line) ==
    IF self.object_type # None /\ self.object_name = None /\ strip(line) # ""
    THEN Bind(FirstWord(Upper(strip(line))), LAMBDA name :
         IF Decodable(name) THEN filter_content([self EXCEPT !.object_name = name], line)
         ELSE Raise(self, NormalizationError("non-ascii object name")))
    ELSE filter_content(self, line)

\* Lines 500-504: the bytes before the match are the object name when the
\* type is known and the name is not. The decoding is not guarded.
name_before(self, before) ==
    IF before # "" /\ self.object_type # None /\ self.object_name = None
    THEN Bind(FirstWord(Upper(strip(before))), LAMBDA name :
         IF Decodable(name) THEN Return([self EXCEPT !.object_name = name], "")
         ELSE Raise(self, UnicodeDecodeError))
    ELSE Return(self, "")

\* Lines 476-588: no context is active and the next token is searched: the
\* line up to the recursive call of line 591.
open_split(self, line) ==
    Bind(search_combine_regex(line), LAMBDA matchdict :
    IF matchdict = NoResult THEN Whole(no_context(self, line))
    ELSE
    Bind(filter_content(self, Slice(line, 0, matchdict.match.start)), LAMBDA before :
    IF before.exc # NoExc THEN Whole(before)
    ELSE
    Bind(name_before([before.self EXCEPT !.re_endobj = matchdict.end], before.ret),
         LAMBDA named :
    IF named.exc # NoExc THEN Whole(named)
    ELSE
    Bind(Slice(line, matchdict.match.end, Len(line)), LAMBDA line_after :
    Bind(dispatch(named.self, matchdict.context,
                  Slice(line, matchdict.match.start, matchdict.match.end), line_after),
         LAMBDA moved :
    IF moved.exc # NoExc THEN Whole(Raise(moved.self, moved.exc))
    ELSE
    Bind(filter_joining(moved.self, matchdict.context, moved.joining), LAMBDA joining :
    IF joining.exc # NoExc THEN Whole(joining)
    ELSE Split(joining.self, before.ret, joining.ret, line_after, matchdict.context)))))))

\* Lines 476-592: the rest of the line is normalized and joined.
open_context(self, line, depth) ==
    Bind(open_split(self, line), LAMBDA sp :
    IF sp.done THEN sp.res
    ELSE
    Bind(normalize_line(sp.self, sp.line_after, depth + 1), LAMBDA after :
    IF after.exc # NoExc THEN after
    ELSE Return(after.self,
             join_line(after.self, sp.before, sp.joining, after.ret, sp.context, TRUE))))

\* A bug lines 422-430 could have: the wrapped body is filtered as code.
wrapped_line_filtered(self, line) ==
    IF search_declaration_regx(line) # NoResult
    THEN Raise(self, NormalizationError("wrong wrapped content"))
    ELSE filter_content(self, line)

\* A bug lines 422-430 could have: the wrapped body is not searched.
wrapped_line_unsearched(self, line) ==
    IF "comments_only" \in self.process_flags THEN Return(self, "") ELSE Return(self, line)

\* Lines 422-430: a line of a wrapped body.
wrapped_line(self, line) ==
    IF search_declaration_regx(line) # NoResult
    THEN Raise(self, NormalizationError("wrong wrapped content"))
    ELSE IF "comments_only" \in self.process_flags THEN Return(self, "")
    ELSE Return(self, line)

\* _normalize_line. depth counts the frames of the recursion.
normalize_line(self, line, depth) ==
    IF depth > StackLimit THEN Raise(self, RecursionError)
    ELSE IF line = "" THEN Return(self, "")
    ELSE Bind(re_win_nl_sub(line), LAMBDA line1 :
         IF self.wrapped THEN wrapped_line(self, line1)
         ELSE IF anything_started(self) THEN close_context(self, line1, depth)
         ELSE open_context(self, line1, depth))

\* ----------------------------------------------------------- normalize

\* _re_add_slash.search(s): a slash at the start or after whitespace, with
\* nothing but whitespace after it.
re_add_slash(s) ==
    \E i \in 0..(Len(s) - 1) :
        /\ ByteAt(s, i) = "/"
        /\ (i = 0 \/ IsSpace(ByteAt(s, i - 1)))
        /\ strip(Slice(s, i + 1, Len(s))) = ""

\* The locals of normalize that live across the iterations of its loop.
LoopStart(self) ==
    [lines |-> 0,
     add_slash |-> "comments_only" \notin self.process_flags,
     end_space |-> TRUE]

\* Lines 684-694: what one iteration writes, given the flags as they were
\* before the line was normalized.
joins_lines(self, as_found, wrapped) ==
    "no_spaces" \in self.process_flags \/ (~as_found /\ ~wrapped)

iteration_write(self, loop, as_found, wrapped, started, normalized) ==
    IF joins_lines(self, as_found, wrapped)
    THEN IF ~loop.end_space /\ ~started /\ ~re_start_space(normalized)
         THEN " " \o normalized
         ELSE IF loop.end_space /\ re_start_space(normalized)
         THEN lstrip(normalized)
         ELSE normalized
    ELSE normalized

\* The value of _normalized after lines 684-691.
iteration_normalized(self, loop, as_found, wrapped, started, normalized) ==
    IF joins_lines(self, as_found, wrapped)
       /\ ~(~loop.end_space /\ ~started /\ ~re_start_space(normalized))
       /\ loop.end_space /\ re_start_space(normalized)
    THEN lstrip(normalized)
    ELSE normalized

\* Lines 696-715: the locals after the iteration; limit 0 is lines=None.
iteration_loop(self, loop, limit, as_found, wrapped, started, normalized) ==
    IF limit # 0 /\ loop.lines + 1 >= limit
    THEN [loop EXCEPT !.lines = @ + 1, !.add_slash = FALSE]
    ELSE [lines |-> loop.lines + 1,
          add_slash |->
              IF "comments_only" \notin self.process_flags /\ strip(normalized) # ""
              THEN ~re_add_slash(normalized) ELSE loop.add_slash,
          end_space |->
              IF joins_lines(self, as_found, wrapped) /\ ~started /\ normalized # ""
              THEN IF strip(normalized) # "" THEN re_end_space(normalized)
                   ELSE loop.end_space
              ELSE TRUE]

\* One iteration of the loop of normalize on the line read (lines 672-715):
\* the instance and the locals after it, the bytes it writes, whether it
\* breaks out of the loop, and the exception it raises.
iteration(self, loop, limit, line) ==
    LET as_found == self.as_found
        wrapped == self.wrapped
        started == anything_started(self)
    IN
    Bind(normalize_line(self, line, 1), LAMBDA n :
    IF n.exc # NoExc
    THEN [self |-> n.self, loop |-> loop, written |-> "", break |-> FALSE, exc |-> n.exc]
    ELSE
    Bind(iteration_normalized(n.self, loop, as_found, wrapped, started, n.ret),
         LAMBDA normalized :
    [self |-> n.self,
     loop |-> iteration_loop(n.self, loop, limit, as_found, wrapped, started, normalized),
     written |-> iteration_write(n.self, loop, as_found, wrapped, started, n.ret),
     break |-> limit # 0 /\ loop.lines + 1 >= limit,
     exc |-> NoExc]))

\* A bug lines 717-721 could have: the terminator does not follow no_spaces.
terminator_newlines(self, loop) == IF ~loop.add_slash THEN "" ELSE "\n\n/"

\* Lines 717-721: the terminator written after the loop.
terminator(self, loop) ==
    IF ~loop.add_slash THEN ""
    ELSE IF "no_spaces" \notin self.process_flags THEN "\n\n/"
    ELSE " /"

\* A bug lines 740-745 could have: the object name is not asked for.
check_parsed_type_only(self) ==
    IF self.object_type = None THEN NormalizationError("object type not parsed")
    ELSE NoExc

\* Lines 740-745: the check that ends normalize.
check_parsed(self) ==
    IF self.object_type = None THEN NormalizationError("object type not parsed")
    ELSE IF self.object_name = None THEN NormalizationError("object name not parsed")
    ELSE NoExc

\* ------------------------------------------------------ the whole call

\* A binary file object: its bytes and its read position.
File(data, pos) == [data |-> data, pos |-> pos]

\* The temporary files normalize creates when write_to is omitted: _fl for an
\* input given as bytes, _write_to for the output.
temporaries(kind) == (IF kind = "bytes" THEN {"_fl"} ELSE {}) \cup {"_write_to"}

\* fl.readline(): the bytes from the position through the next newline.
LineEnd(data, i) ==
    CHOOSE j \in i..Len(data) :
        /\ j = Len(data) \/ (j > i /\ ByteAt(data, j - 1) = "\n")
        /\ \A k \in i..(j - 2) : ByteAt(data, k) # "\n"
readline(fl) == Slice(fl.data, fl.pos, LineEnd(fl.data, fl.pos))

\* A bug line 656 could have: the input is read from where it stands.
rewind_forgotten(fl) == fl

\* fl.seek(0, os.SEEK_SET) of line 656.
rewind(fl) == [fl EXCEPT !.pos = 0]

\* The loop of normalize (lines 665-715) on a file, to its end: the instance
\* and the locals after it, the file, the bytes written and the exception.
RECURSIVE read_loop(_, _, _, _, _)
read_loop(self, loop, limit, fl, out) ==
    Bind(readline(fl), LAMBDA line :
    IF line = ""
    THEN [self |-> self, loop |-> loop, fl |-> fl, out |-> out, exc |-> NoExc]
    ELSE
    Bind(iteration(self, loop, limit, line), LAMBDA it :
    Bind([fl EXCEPT !.pos = @ + Len(line)], LAMBDA fl1 :
    IF it.exc # NoExc \/ it.break
    THEN [self |-> it.self, loop |-> it.loop, fl |-> fl1, out |-> out \o it.written,
          exc |-> it.exc]
    ELSE Bind(out \o it.written, LAMBDA out1 :
         read_loop(it.self, it.loop, limit, fl1, out1)))))

\* normalize(fl, flags, lines) with write_to omitted, on an instance in the
\* state self. The argument is a bytes
\* value (kind bytes: a temporary file is written, which leaves its position
\* at its end) or a file object opened by the caller (kind stream, at any
\* position). The result: the instance, the caller's file, the bytes written
\* to the output, the locals of the loop when it was left, the value returned,
\* the exception raised and the temporary files left open.
normalize_on(self, arg, flags, limit) ==
    Bind([reset(self) EXCEPT !.process_flags = flags], LAMBDA self1 :
    IF check_flags(self1) # NoExc
    THEN [self |-> self1, fl |-> File(arg.data, arg.pos), loop |-> LoopStart(self1),
          out |-> "", ret |-> "", exc |-> check_flags(self1), open |-> {}]
    ELSE
    Bind(IF arg.kind = "bytes" THEN File(arg.data, Len(arg.data))
         ELSE File(arg.data, arg.pos), LAMBDA fl :
    Bind(read_loop(self1, LoopStart(self1), limit, rewind(fl), ""), LAMBDA run :
    IF run.exc # NoExc
    THEN [self |-> run.self, fl |-> run.fl, loop |-> run.loop, out |-> run.out,
          ret |-> "", exc |-> run.exc, open |-> temporaries(arg.kind)]
    ELSE
    Bind(run.out \o terminator(run.self, run.loop), LAMBDA out :
    [self |-> run.self, fl |-> [run.fl EXCEPT !.pos = fl.pos], loop |-> run.loop,
     out |-> out,
     ret |-> IF check_parsed(run.self) # NoExc THEN "" ELSE out,
     exc |-> check_parsed(run.self), open |-> {}]))))

\* The call on an instance just constructed.
normalize(arg, flags, limit) == normalize_on(ResetState, arg, flags, limit)

\* ------------------------------------------------- wrapper: the payload

\* The bytes the codec works on are sequences of integers 0..255. A bytes
\* value of the text, a TLC string, is turned into them and back with the
\* ASCII table: offset n - 32 of AsciiLow is the byte n of 32..95, offset
\* n - 97 of AsciiHigh the byte n of 97..126. The other bytes, which have no
\* character in a string of TLA+, are in no text of this model.
AsciiLow == " !\"#$%&'()*+,-./0123456789:;<=>?@ABCDEFGHIJKLMNOPQRSTUVWXYZ[\\]^_"
AsciiHigh == "abcdefghijklmnopqrstuvwxyz{|}~"
Ordinal(c) ==
    CASE c = "\n" -> 10 [] c = "\t" -> 9 [] c = "\r" -> 13 [] c = "\f" -> 12
      [] c \in BytesOf(AsciiLow) -> 32 + (CHOOSE i \in 0..63 : ByteAt(AsciiLow, i) = c)
      [] c \in BytesOf(AsciiHigh) -> 97 + (CHOOSE i \in 0..29 : ByteAt(AsciiHigh, i) = c)
Character(n) ==
    CASE n = 10 -> "\n" [] n = 9 -> "\t" [] n = 13 -> "\r" [] n = 12 -> "\f"
      [] n \in 32..95 -> ByteAt(AsciiLow, n - 32)
      [] n \in 97..126 -> ByteAt(AsciiHigh, n - 97)
Text(bytes) == Join(LAMBDA k : Character(bytes[k + 1]), 0, Len(bytes))

\* PLSQLWrapper._charmap
charmap == <<
     61, 101, 133, 179,  24, 219, 226, 135, 241,  82, 171,  99,  75, 181, 160,  95,
    125, 104, 123, 155,  36, 194,  40, 103, 138, 222, 164,  38,  30,   3, 235,  23,
    111,  52,  62, 122,  63, 210, 169, 106,  15, 233,  53,  86,  31, 177,  77,  16,
    120, 217, 117, 246, 188,  65,   4, 129,  97,   6, 249, 173, 214, 213,  41, 126,
    134, 158, 121, 229,   5, 186, 132, 204, 110,  39, 142, 176,  93, 168, 243, 159,
    208, 162, 113, 184,  88, 221,  44,  56, 153,  76,  72,   7,  85, 228,  83, 140,
     70, 182,  45, 165, 175,  50,  34,  64, 220,  80, 195, 161,  37, 139, 156,  22,
     96,  92, 207, 253,  12, 152,  28, 212,  55, 109,  60,  58,  48, 232, 108,  49,
     71, 245,  51, 218,  67, 200, 227,  94,  25, 148, 236, 230, 163, 149,  20, 224,
    157, 100, 250,  89,  21, 197,  47, 202, 187,  11, 223, 242, 151, 191,  10, 118,
    180,  73,  68,  90,  29, 240,   0, 150,  33, 128, 127,  26, 130,  57,  79, 193,
    167, 215,  13, 209, 216, 255,  19, 147, 112, 238,  91, 239, 190,   9, 185, 119,
    114, 231, 178,  84, 183,  42, 199, 115, 144, 102,  32,  14,  81, 237, 248, 124,
    143,  46, 244,  18, 198,  43, 131, 205, 172, 203,  59, 196,  78, 192, 105,  54,
     98,   2, 174, 136, 252, 170,  66,   8, 166,  69,  87, 211, 154, 189, 225,  35,
    141, 146,  74,  17, 137, 116, 107, 145, 251, 254, 201,   1, 234,  27, 247, 206>>

\* The sum of F(a), ..., F(b - 1), halving the range.
RECURSIVE Sum(_, _, _)
Sum(F(_), a, b) ==
    IF b <= a THEN 0
    ELSE IF b = a + 1 THEN F(a)
    ELSE Sum(F, a, (a + b) \div 2) + Sum(F, (a + b) \div 2, b)

\* Bytes of a text, and a result of the codec: bytes, or an exception.
Bytes(s) == [i \in 1..Len(s) |-> Ordinal(ByteAt(s, i - 1))]
Decoded(bytes) == [out |-> bytes, exc |-> NoExc]
Undecoded(type, msg) == [out |-> <<>>, exc |-> [type |-> type, msg |-> msg]]

\* base64.b64decode(s) of a bytes value, not validated: the characters outside
\* the alphabet are skipped. Base64Groups decodes data characters alone: n of
\* them give three bytes for every four and one or two for a rest of two or
\* three.
Base64Alphabet == "ABCDEFGHIJKLMNOPQRSTUVWXYZabcdefghijklmnopqrstuvwxyz0123456789+/"
Base64Set == BytesOf(Base64Alphabet)
Base64Value == [c \in Base64Set |-> CHOOSE i \in 0..63 : ByteAt(Base64Alphabet, i) = c]
Base64Groups(data) ==
    [j \in 1..(3 * (Len(data) \div 4) + (((Len(data) % 4) * 3) \div 4)) |->
        Bind((j - 1) \div 3, LAMBDA g :
        Bind([k \in 0..3 |-> IF 4 * g + k < Len(data)
                             THEN Base64Value[ByteAt(data, 4 * g + k)] ELSE 0], LAMBDA v :
        CASE (j - 1) % 3 = 0 -> v[0] * 4 + (v[1] \div 16)
          [] (j - 1) % 3 = 1 -> (v[1] % 16) * 16 + (v[2] \div 4)
          [] OTHER -> (v[2] % 4) * 64 + v[3]))]

\* The padding: a pad met after two data characters of a group ends the
\* decoding when another pad follows it, one met after three ends it; any
\* other pad is skipped. Data that ends inside a group is refused.
RECURSIVE Base64Padded(_)
Base64Padded(s) ==
    Bind(Leftmost(Len(s) - 1, LAMBDA p : ByteAt(s, p) = "="), LAMBDA p :
    IF p < 0
    THEN IF Len(s) % 4 = 0 THEN Decoded(Base64Groups(s))
         ELSE IF Len(s) % 4 = 1 THEN Undecoded("binascii.Error", "invalid string")
         ELSE Undecoded("binascii.Error", "incorrect padding")
    ELSE IF p % 4 = 3 \/ (p % 4 = 2 /\ p + 1 < Len(s) /\ ByteAt(s, p + 1) = "=")
    THEN Decoded(Base64Groups(Slice(s, 0, p)))
    ELSE Base64Padded(Slice(s, 0, p) \o Slice(s, p + 1, Len(s))))

b64decode(s) ==
    Base64Padded(Join(LAMBDA k : IF ByteAt(s, k) \in Base64Set \cup {"="}
                                 THEN ByteAt(s, k) ELSE "", 0, Len(s)))

\* zlib.adler32 of bytes, as the four bytes of the 32-bit value, the most
\* significant first: the sum of the sums, then the sum, both modulo 65521.
adler32(bytes) ==
    Bind(Len(bytes), LAMBDA n :
    Bind((n + Sum(LAMBDA i : (n - i + 1) * bytes[i], 1, n + 1)) % 65521, LAMBDA b :
    Bind((1 + Sum(LAMBDA i : bytes[i], 1, n + 1)) % 65521, LAMBDA a :
    <<b \div 256, b % 256, a \div 256, a % 256>>)))

\* The blocks of a deflate stream from offset i (1-based) of z, out being
\* the bytes of the blocks before. A stored block: the header byte, LEN and
\* its complement, LEN bytes. After the last block the Adler-32 of the output,
\* big-endian; what follows it is not read. The blocks of Huffman codes (types
\* 1 and 2) are not modelled: no input of this model holds one.
RECURSIVE inflate(_, _, _)
inflate(z, i, out) ==
    IF i > Len(z) THEN Undecoded("zlib.error", "incomplete or truncated stream")
    ELSE IF (z[i] \div 2) % 4 = 3 THEN Undecoded("zlib.error", "invalid block type")
    ELSE IF (z[i] \div 2) % 4 # 0 THEN Undecoded("unmodelled", "huffman codes")
    ELSE IF i + 4 > Len(z) THEN Undecoded("zlib.error", "incomplete or truncated stream")
    ELSE
    Bind(z[i + 1] + 256 * z[i + 2], LAMBDA len :
    IF len + z[i + 3] + 256 * z[i + 4] # 65535
    THEN Undecoded("zlib.error", "invalid stored block lengths")
    ELSE IF i + 4 + len > Len(z)
    THEN Undecoded("zlib.error", "incomplete or truncated stream")
    ELSE
    Bind(out \o SubSeq(z, i + 5, i + 4 + len), LAMBDA out1 :
    IF z[i] % 2 = 0 THEN inflate(z, i + 5 + len, out1)
    ELSE IF i + 8 + len > Len(z)
    THEN Undecoded("zlib.error", "incomplete or truncated stream")
    ELSE IF adler32(out1) # SubSeq(z, i + 5 + len, i + 8 + len)
    THEN Undecoded("zlib.error", "incorrect data check")
    ELSE Decoded(out1)))

\* zlib.decompress(z): the two bytes of the header, then the blocks.
decompress(z) ==
    IF Len(z) < 2 THEN Undecoded("zlib.error", "incomplete or truncated stream")
    ELSE IF (z[1] * 256 + z[2]) % 31 # 0
    THEN Undecoded("zlib.error", "incorrect header check")
    ELSE IF z[1] % 16 # 8 THEN Undecoded("zlib.error", "unknown compression method")
    ELSE IF z[1] \div 16 > 7 THEN Undecoded("zlib.error", "invalid window size")
    ELSE IF (z[2] \div 32) % 2 = 1 THEN Undecoded("zlib.error", "need dictionary")
    ELSE inflate(z, 3, <<>>)

\* A bug the substitution of lines 178-188 could have: the checksum is not
\* cut off.
substituted_whole(payload) == [i \in 1..Len(payload) |-> charmap[payload[i] + 1]]

\* Lines 178-188: the payload without its first 20 bytes, each byte replaced
\* by its entry of _charmap.
substituted(payload) ==
    [i \in 1..(IF Len(payload) > 20 THEN Len(payload) - 20 ELSE 0) |->
        charmap[payload[i + 20] + 1]]

\* _decode_base64_package(pkg_base64)
decode_base64_package(pkg_base64) ==
    Bind(b64decode(pkg_base64), LAMBDA payload :
    IF payload.exc # NoExc THEN payload
    ELSE decompress(substituted(payload.out)))

\* --------------------------------------------------- wrapper: unwrap_buf

\* _re_cmnt.sub(repl, s): every block comment that is closed and every line
\* comment that has its newline is replaced, leftmost first.
CommentEnd(s, p) ==
    IF Slice(s, p, p + 2) = "/*"
    THEN Bind(Leftmost(Len(s) - 2, LAMBDA j : j >= p + 2 /\ Slice(s, j, j + 2) = "*/"),
              LAMBDA j : IF j < 0 THEN -1 ELSE j + 2)
    ELSE IF Slice(s, p, p + 2) = "--"
    THEN Bind(Leftmost(Len(s) - 1, LAMBDA j : j >= p + 2 /\ ByteAt(s, j) = "\n"),
              LAMBDA j : IF j < 0 THEN -1 ELSE j + 1)
    ELSE -1
RECURSIVE re_cmnt_sub(_, _)
re_cmnt_sub(repl, s) ==
    Bind(Leftmost(Len(s) - 2, LAMBDA p : CommentEnd(s, p) >= 0), LAMBDA p :
    IF p < 0 THEN s
    ELSE Slice(s, 0, p) \o repl \o re_cmnt_sub(repl, Slice(s, CommentEnd(s, p), Len(s))))

\* \s+ at offset p: the offset after the run, or -1.
SpacesEnd(s, p) ==
    IF p < Len(s) /\ IsSpace(ByteAt(s, p)) THEN LeadingSpaces(s, p) ELSE -1

\* (or\s+replace\s+)? at offset q: the offset after it, q when it is absent.
OrReplaceEnd(s, q) ==
    IF WordIsAt("or", s, q) /\ SpacesEnd(s, q + 2) >= 0
       /\ WordIsAt("replace", s, SpacesEnd(s, q + 2))
    THEN Bind(SpacesEnd(s, SpacesEnd(s, q + 2) + 7), LAMBDA e : IF e < 0 THEN q ELSE e)
    ELSE q

\* (package\s+body|package|procedure|function) at offset q: the offset after
\* each alternative, in the order they are tried, -1 for one that fails.
DeclTypeEnds(s, q) ==
    <<IF WordIsAt("package", s, q) /\ SpacesEnd(s, q + 7) >= 0
         /\ WordIsAt("body", s, SpacesEnd(s, q + 7))
      THEN SpacesEnd(s, q + 7) + 4 ELSE -1,
      IF WordIsAt("package", s, q) THEN q + 7 ELSE -1,
      IF WordIsAt("procedure", s, q) THEN q + 9 ELSE -1,
      IF WordIsAt("function", s, q) THEN q + 8 ELSE -1>>

\* \s+(.*)\s+wrapped(\s+|$) at offset t. The word wrapped at w ends the
\* name when a whitespace byte stands before it and whitespace or the end
\* after it. Both \s+ and .* are greedy: the first takes the whole run, to r,
\* and the name reaches from r to the byte before the last such w, no newline
\* in it; when there is none, the name is empty and wrapped stands at r.
WrappedAt(s, t, w) ==
    /\ w - 1 >= t + 1
    /\ WordIsAt("wrapped", s, w)
    /\ IsSpace(ByteAt(s, w - 1))
    /\ w + 7 = Len(s) \/ IsSpace(ByteAt(s, w + 7))
DeclName(s, t) ==
    IF SpacesEnd(s, t) < 0 THEN NoMatch
    ELSE
    Bind(SpacesEnd(s, t), LAMBDA r :
    Bind({w \in (r + 1)..(Len(s) - 7) :
            WrappedAt(s, t, w) /\ \A k \in r..(w - 2) : ByteAt(s, k) # "\n"}, LAMBDA ws :
    IF ws # {}
    THEN Bind(CHOOSE w \in ws : \A v \in ws : v <= w, LAMBDA w :
         [start |-> r, end |-> LeadingSpaces(s, w + 7), group |-> Slice(s, r, w - 1)])
    ELSE IF WrappedAt(s, t, r)
    THEN [start |-> r - 1, end |-> LeadingSpaces(s, r + 7), group |-> ""]
    ELSE NoMatch))

\* _re_decl at offset p: the match and its groups, or NoMatch.
DeclAt(s, p) ==
    IF ~(WordIsAt("create", s, p) /\ SpacesEnd(s, p + 6) >= 0) THEN NoMatch
    ELSE
    Bind(OrReplaceEnd(s, SpacesEnd(s, p + 6)), LAMBDA q :
    Bind(DeclTypeEnds(s, q), LAMBDA ends :
    Bind({a \in DOMAIN ends : ends[a] >= 0 /\ IsMatch(DeclName(s, ends[a]))}, LAMBDA alts :
    IF alts = {} THEN NoMatch
    ELSE Bind(ends[CHOOSE a \in alts : \A b \in alts : a <= b], LAMBDA t :
         [start |-> p, end |-> DeclName(s, t).end, group |-> "",
          create_suffix |-> Slice(s, p, q), object_type |-> Slice(s, q, t),
          object_name |-> DeclName(s, t).group]))))

\* _re_decl.search(s): the leftmost match.
re_decl_search(s) ==
    Bind(Leftmost(Len(s) - 6, LAMBDA p : IsMatch(DeclAt(s, p))), LAMBDA p :
    IF p < 0 THEN NoMatch ELSE DeclAt(s, p))

\* _re_wrapstart.match(line): two numbers of lower-case hexadecimal digits
\* with one space between. The value of the second, or -1.
HexDigits == "0123456789abcdef"
HexValue(c) == CHOOSE i \in 0..15 : ByteAt(HexDigits, i) = c
IsHex(s) == Len(s) > 0 /\ \A i \in 0..(Len(s) - 1) : ByteAt(s, i) \in BytesOf(HexDigits)
RECURSIVE int16(_)
int16(s) ==
    IF s = "" THEN 0
    ELSE 16 * int16(Slice(s, 0, Len(s) - 1)) + HexValue(ByteAt(s, Len(s) - 1))
re_wrapstart(line) ==
    Bind(FirstSpace(line), LAMBDA sp :
    Bind(IF endswith(line, "\n") THEN Len(line) - 1 ELSE Len(line), LAMBDA e :
    IF sp < e /\ ByteAt(line, sp) = " " /\ IsHex(Slice(line, 0, sp))
       /\ IsHex(Slice(line, sp + 1, e))
    THEN int16(Slice(line, sp + 1, e)) ELSE -1))

\* Lines 278-293: lines are read and put together, their carriage returns
\* removed, until base64len bytes are there or the file ends.
RECURSIVE read_base64(_, _, _)
read_base64(fl, base64, base64len) ==
    IF Len(base64) >= base64len \/ readline(fl) = "" THEN [fl |-> fl, base64 |-> base64]
    ELSE read_base64([fl EXCEPT !.pos = @ + Len(readline(fl))],
                     base64 \o DropBytes("\r", readline(fl), 0), base64len)

\* A bug lines 314-336 could have: the name is cut at its first dot.
SchemaName_first_dot(obj_name) ==
    Bind(Leftmost(Len(obj_name) - 1, LAMBDA d : ByteAt(obj_name, d) = "."),
         LAMBDA d : IF d < 0 THEN obj_name ELSE Slice(obj_name, 0, d))

\* Lines 314-336: the pieces of the object name, split at the dots, up to
\* the first one that ends outside double quotes.
SchemaName(obj_name) ==
    Bind(Leftmost(Len(obj_name) - 1, LAMBDA d :
             /\ ByteAt(obj_name, d) = "."
             /\ Cardinality({k \in 0..(d - 1) : ByteAt(obj_name, k) = "\""}) % 2 = 0),
         LAMBDA d : IF d < 0 THEN obj_name ELSE Slice(obj_name, 0, d))

\* Lines 302-355 on the decoded bytes add: when they start with the object
\* type, whatever the case, the type and the whitespace after it are replaced
\* by the prefix of the declaration, with the schema when the name has a dot,
\* and the zero bytes are removed.
UpperOrdinal(n) == IF n \in 97..122 THEN n - 32 ELSE n
SpaceOrdinals == {9, 10, 11, 12, 13, 32}
restore_prefix(add, create_prefix, obj_type, obj_name) ==
    IF ~(Len(add) >= Len(obj_type)
         /\ \A i \in 1..Len(obj_type) : UpperOrdinal(add[i]) = Bytes(obj_type)[i])
    THEN add
    ELSE
    Bind(re_any_space_sub(strip(create_prefix \o obj_type)), LAMBDA start0 :
    Bind(IF Contains(obj_name, ".") THEN start0 \o " " \o SchemaName(obj_name) \o "."
         ELSE rstrip(start0 \o " ") \o " ", LAMBDA start :
    Bind(CHOOSE e \in (Len(obj_type) + 1)..(Len(add) + 1) :
             /\ e = Len(add) + 1 \/ add[e] \notin SpaceOrdinals
             /\ \A k \in (Len(obj_type) + 1)..(e - 1) : add[k] \in SpaceOrdinals, LAMBDA e :
    Bind(IF e = Len(obj_type) + 1 THEN add
         ELSE Bytes(start) \o SubSeq(add, e, Len(add)), LAMBDA add1 :
    SelectSeq(add1, LAMBDA b : b # 0)))))

\* The loop of unwrap_buf, lines 230-367, from the line at the position of
\* fl to the end of the file: the bytes written, the file, the exception,
\* and headers, the number of times the branch of line 268 was taken, a
\* declaration in _decl and a line of two hexadecimal numbers; resets holds,
\* for each object decoded, the bytes read beyond its payload (lines
\* 295-298) and the value _decl is given at line 364.
RECURSIVE unwrap_loop(_, _, _, _)
unwrap_loop(decl, decl_next, fl, out) ==
    IF readline(fl) = ""
    THEN [out |-> out, fl |-> fl, exc |-> NoExc, headers |-> 0, resets |-> <<>>]
    ELSE
    Bind([fl EXCEPT !.pos = @ + Len(readline(fl))], LAMBDA fl1 :
    Bind(strip(re_cmnt_sub(" ", readline(fl))), LAMBDA line :
    IF line = "" THEN unwrap_loop(decl, decl_next, fl1, out)
    ELSE
    Bind(re_decl_search(decl), LAMBDA match_decl :
    IF ~IsMatch(match_decl)
    THEN unwrap_loop(re_cmnt_sub("", decl \o " " \o line), decl_next, fl1, out)
    ELSE IF re_wrapstart(line) < 0
    THEN unwrap_loop(Slice(decl, match_decl.start, match_decl.end), decl_next, fl1, out)
    ELSE
    Bind(read_base64(fl1, "", re_wrapstart(line)), LAMBDA read :
    Bind(IF Len(read.base64) > re_wrapstart(line)
         THEN Slice(read.base64, re_wrapstart(line), Len(read.base64))
         ELSE decl_next, LAMBDA decl_next1 :
    Bind(decode_base64_package(
             DropBytes("\n", Slice(read.base64, 0, re_wrapstart(line)), 0)), LAMBDA pkg :
    IF pkg.exc # NoExc
    THEN [out |-> out, fl |-> read.fl, exc |-> pkg.exc, headers |-> 1, resets |-> <<>>]
    ELSE
    Bind(restore_prefix(pkg.out \o <<10>>, Upper(match_decl.create_suffix),
                        re_any_space_sub(Upper(match_decl.object_type)),
                        Upper(match_decl.object_name)), LAMBDA add :
    [unwrap_loop(decl_next1, decl_next1, read.fl, out \o Text(add))
         EXCEPT !.headers = @ + 1,
                !.resets = <<[beyond |-> Slice(read.base64, re_wrapstart(line),
                                               Len(read.base64)),
                              decl |-> decl_next1]>> \o @])))))))

\* unwrap_buf(fl_in) with write_to omitted, on a file the caller opened: the
\* bytes returned, the exception raised, the caller's file and the temporary
\* file left open.
unwrap_buf(fl_in) ==
    Bind(unwrap_loop("", "", rewind(fl_in), ""), LAMBDA run :
    IF run.exc # NoExc
    THEN [ret |-> "", exc |-> run.exc, fl |-> run.fl, open |-> {"_fl_out"},
          headers |-> run.headers, resets |-> run.resets]
    ELSE [ret |-> run.out, exc |-> NoExc, fl |-> [run.fl EXCEPT !.pos = fl_in.pos],
          open |-> {}, headers |-> run.headers, resets |-> run.resets])

\* ------------------------------------------------------------ the inputs

\* The lexemes the input lines are made of: the keywords of a declaration,
\* a plain and a quoted name, literals and quotes that are closed or left
\* open, the comment delimiters, and a byte that is not UTF-8.
Atoms == {"create", "or", "replace", "procedure", "package", "body", "trigger",
          "as", "wrapped", "p", "\"p\"", "\"", "'", "'x'", "--", "/*", "*/", "ÿ"}

\* The lines of two lexemes.
Pairs == {<<"create", "procedure">>, <<"create", "package">>, <<"create", "trigger">>,
          <<"body", "p">>, <<"p", "as">>, <<"p", "wrapped">>, <<"ÿ", "'x'">>,
          <<"*/", "'">>, <<"wrapped", "create">>, <<"'x'", "'x'">>,
          <<"\"p\"", "'">>}

\* The lines fl.readline() returns: one lexeme, or two with a space between,
\* ended by a newline. At most MaxLines lines are read.
MaxLines == 3
Lines == {a \o "\n" : a \in Atoms} \cup {p[1] \o " " \o p[2] \o "\n" : p \in Pairs}

\* The values of the lines argument of normalize: 0 is None, no limit.
Limits == {0}

\* self._fl_full() + [no_literals], the flags of the predicates.
fl_full == {"no_comments", "no_spaces", "uppercase"}
PropsFlags == fl_full \cup {"no_literals"}
Predicates == {"is_sql", "is_wrapped", "is_wrappable"}

\* The contents of whole inputs: at most MaxContentLines of ContentLines.
MaxContentLines == 2
ContentLines == {"create procedure\n", "p as\n", "p wrapped\n", "'x'\n", "ÿ 'x'\n"}
RECURSIVE ContentsOf(_)
ContentsOf(n) ==
    IF n = 0 THEN {""}
    ELSE ContentsOf(n - 1) \cup {c \o l : c \in ContentsOf(n - 1), l \in ContentLines}
Contents == ContentsOf(MaxContentLines)

\* The texts normalize is called on as a whole: at most MaxTextLines of
\* TextLines. A declaration on one line, with a literal left open, with a
\* quoted name, wrapped; the end of a literal; a slash alone and in a
\* comment; a statement.
MaxTextLines == 2
TextLines == {"create procedure p as\n", "create procedure p as x := 'a\n", " b';\n",
              "-- /\n", "/\n", "create procedure \"p  q\" as\n",
              "create procedure p wrapped\n", "x;\n"}
RECURSIVE TextsOf(_)
TextsOf(n) ==
    IF n = 0 THEN {""}
    ELSE TextsOf(n - 1) \cup {c \o l : c \in TextsOf(n - 1), l \in TextLines}
Texts == TextsOf(MaxTextLines)

\* The flag sets _check_flags accepts, and the values of lines for a text.
ValidFlags ==
    {f \in SUBSET Flags : check_flags([ResetState EXCEPT !.process_flags = f]) = NoExc}
TextLimits == 0..MaxTextLines

\* ------------------------------------------------------- the state machine

VARIABLES
    self,       \* the fields of the PLSQLNormalizer instance
    pc,         \* where the call is: idle, loop, wrote, eof, returned, raised
    call,       \* the method called and its arguments
    loop,       \* the locals of normalize that live across its iterations
    line,       \* the line read by the iteration just run
    write_to,   \* the bytes just written to the output
    caught,     \* the exception _is_props_g caught
    exc,        \* the exception the call raised
    ret,        \* the value the call returned
    files       \* the temporary files open, the position of the caller's file

vars == <<self, pc, call, loop, line, write_to, caught, exc, ret, files>>

NoCall == [method |-> "", flags |-> {}, limit |-> 0]

Init ==
    /\ self = ResetState
    /\ pc = "idle"
    /\ call = NoCall
    /\ loop = LoopStart(ResetState)
    /\ line = ""
    /\ write_to = ""
    /\ caught = NoExc
    /\ exc = NoExc
    /\ ret = None
    /\ files = [open |-> {}, pos |-> 0]

\* The return expressions of is_sql, is_wrapped and is_wrappable.
is_sql_value(s) == s.create_found /\ s.object_type # None /\ s.object_name # None
is_wrapped_value(s) == is_sql_value(s) /\ s.wrapped
\* A bug is_wrappable could have: as_found is not asked for.
is_wrappable_value_without_as(s) ==
    /\ is_sql_value(s)
    /\ Lower(s.object_type) \in {"procedure", "function", "package body"}

is_wrappable_value(s) ==
    /\ is_sql_value(s)
    /\ Lower(s.object_type) \in {"procedure", "function", "package body"}
    /\ s.as_found

props_value(method, s) ==
    IF method = "is_sql" THEN is_sql_value(s)
    ELSE IF method = "is_wrapped" THEN is_wrapped_value(s)
    ELSE is_wrappable_value(s)

Bool(b) == IF b THEN "True" ELSE "False"

\* The except clause of _is_props_g: what it catches, and the instance after
\* it, which is reset when an exception was caught.
Catches == {"PLSQLNormalizationError", "RecursionError"}
props_state_not_reset(s, e) == s
props_state(s, e) == IF e = NoExc THEN s ELSE reset(s)

\* The temporary files a predicate leaves open when normalize, called with
\* write_to = _tmp, has left open the files of the set open and has ended with
\* e: _tmp.close() is reached unless e is an exception the clause lets through.
is_props_files(open, e) ==
    (open \ {"_write_to", "_tmp"}) \cup
        (IF e = NoExc \/ e.type \in Catches THEN {} ELSE {"_tmp"})

\* How a call of method ends once normalize has ended with instance s and
\* exception e: normalize itself raises e or returns; a predicate runs the
\* rest of _is_props_g and its return expression.
Exit(method, s, e) ==
    IF method = "normalize"
    THEN /\ self' = s
         /\ exc' = e
         /\ caught' = NoExc
         /\ ret' = None
         /\ pc' = IF e = NoExc THEN "returned" ELSE "raised"
    ELSE IF e = NoExc \/ e.type \in Catches
    THEN /\ self' = props_state(s, e)
         /\ caught' = e
         /\ exc' = NoExc
         /\ ret' = Bool(props_value(method, props_state(s, e)))
         /\ pc' = "returned"
    ELSE /\ self' = s
         /\ caught' = NoExc
         /\ exc' = e
         /\ ret' = None
         /\ pc' = "raised"

\* normalize(fl, flags, lines) up to its loop: _reset, the flags, _check_flags.
Normalize(flags, limit) ==
    /\ pc = "idle"
    /\ call' = [method |-> "normalize", flags |-> flags, limit |-> limit]
    /\ \E s \in {[reset(self) EXCEPT !.process_flags = flags]} :
           /\ loop' = LoopStart(s)
           /\ self' = s
           /\ exc' = check_flags(s)
           /\ pc' = IF check_flags(s) # NoExc THEN "raised" ELSE "loop"
           /\ files' = [files EXCEPT !.open = IF check_flags(s) # NoExc THEN {}
                                               ELSE temporaries("bytes")]
    /\ UNCHANGED <<line, write_to, caught, ret>>

\* is_sql(fl), is_wrapped(fl), is_wrappable(fl) up to the loop of normalize.
IsProps(method) ==
    /\ pc = "idle"
    /\ call' = [method |-> method, flags |-> PropsFlags, limit |-> 0]
    /\ \E s \in {[reset(self) EXCEPT !.process_flags = PropsFlags]} :
           /\ loop' = LoopStart(s)
           /\ self' = s
           /\ pc' = "loop"
    /\ files' = [files EXCEPT !.open = {"_fl", "_tmp"}]
    /\ UNCHANGED <<line, write_to, caught, exc, ret>>

\* One iteration of the loop on the line l that readline returns.
ReadLine(l) ==
    /\ pc = "loop"
    /\ loop.lines < MaxLines
    /\ \E it \in {iteration(self, loop, call.limit, l)} :
           /\ line' = l
           /\ loop' = it.loop
           /\ write_to' = it.written
           /\ IF it.exc # NoExc
              THEN /\ Exit(call.method, it.self, it.exc)
                   /\ files' = IF call.method = "normalize" THEN files
                                ELSE [files EXCEPT !.open = is_props_files(@, it.exc)]
              ELSE /\ self' = it.self
                   /\ pc' = IF it.break \/ ~endswith(l, "\n") THEN "eof" ELSE "wrote"
                   /\ UNCHANGED <<caught, exc, ret, files>>
    /\ UNCHANGED call

\* The reader of the output takes what the iteration wrote.
Consume ==
    /\ pc = "wrote"
    /\ pc' = "loop"
    /\ line' = ""
    /\ write_to' = ""
    /\ UNCHANGED <<self, call, loop, caught, exc, ret, files>>

\* readline returns nothing, or the loop was left at the line limit: the
\* terminator, the files closed, the check of what was parsed, and the return.
Finish ==
    /\ pc \in {"loop", "eof"}
    /\ write_to' = write_to \o terminator(self, loop)
    /\ files' = [files EXCEPT !.open = {}]
    /\ Exit(call.method, self, check_parsed(self))
    /\ UNCHANGED <<call, loop, line>>

Next ==
    \/ \E flags \in SUBSET Flags, limit \in Limits : Normalize(flags, limit)
    \/ \E method \in Predicates : IsProps(method)
    \/ \E l \in Lines : ReadLine(l)
    \/ Consume
    \/ Finish

Spec == Init /\ [][Next]_vars

\* ------------------------------------------------------- whole calls

\* A predicate called on a whole input: a bytes value, a stream the caller
\* opened and left at a position, or a path, which is_sql_path,
\* is_wrapped_path and is_wrappable_path open and hand over as a stream.
Argument(kind, data, pos) ==
    [kind |-> IF kind = "bytes" THEN "bytes" ELSE "stream", data |-> data, pos |-> pos]

Predicate(method, kind, data, pos) ==
    /\ pc = "idle"
    /\ call' = [method |-> method, flags |-> PropsFlags, limit |-> 0,
                kind |-> kind, data |-> data, pos |-> pos]
    /\ \E r \in {normalize(Argument(kind, data, pos), PropsFlags, 0)} :
           /\ write_to' = r.out
           /\ files' = [open |-> is_props_files(r.open, r.exc), pos |-> r.fl.pos]
           /\ Exit(method, r.self, r.exc)
    /\ UNCHANGED <<loop, line>>

PredicateBytes == \E m \in Predicates, c \in Contents : Predicate(m, "bytes", c, 0)
PredicateStream ==
    \E m \in Predicates, c \in Contents : \E pos \in 0..Len(c) : Predicate(m, "stream", c, pos)
PredicatePath == \E m \in Predicates, c \in Contents : Predicate(m, "path", c, 0)

NextCalls == PredicateBytes \/ PredicateStream \/ PredicatePath

SpecCalls == Init /\ [][NextCalls]_vars

\* normalize(fl, flags, lines) called on a bytes value and run to its end:
\* write_to holds the whole output, loop the locals when the loop was left.
NormalizeBytes(flags, limit, data) ==
    /\ pc = "idle"
    /\ call' = [method |-> "normalize", flags |-> flags, limit |-> limit,
                kind |-> "bytes", data |-> data, pos |-> 0]
    /\ \E r \in {normalize(Argument("bytes", data, 0), flags, limit)} :
           /\ write_to' = r.out
           /\ loop' = r.loop
           /\ files' = [open |-> r.open, pos |-> r.fl.pos]
           /\ Exit("normalize", r.self, r.exc)
    /\ UNCHANGED line

NextTexts ==
    \E flags \in ValidFlags, limit \in TextLimits, data \in Texts :
        NormalizeBytes(flags, limit, data)

SpecTexts == Init /\ [][NextTexts]_vars

\* The inputs of the worked examples: a procedure on one line, a comment
\* before a package on one line, a function that returns a literal with a
\* doubled quote, a procedure with a quoted name that holds a space, a
\* procedure with a literal that runs over two lines.
Hello == "CREATE OR REPLACE PROCEDURE hello AS BEGIN null; END;\n"
TopComment == "-- top comment\nCREATE PACKAGE p AS x number; END;\n"
DoubledQuote == "CREATE FUNCTION f RETURN number AS BEGIN RETURN 'it''s'; END;\n"
MyProc == "CREATE PROCEDURE \"My Proc\" AS BEGIN null; END;\n"
TwoLines == "CREATE PROCEDURE p AS x := 'a\n b';\n"
Examples == {Hello, TopComment, DoubledQuote, MyProc, TwoLines}

NextExamples ==
    \E flags \in ValidFlags, limit \in TextLimits, data \in Examples :
        NormalizeBytes(flags, limit, data)

SpecExamples == Init /\ [][NextExamples]_vars

\* Quoted identifiers: word bytes only, with a space, with another byte
\* that is not a word byte, closed on the next line, not ASCII, and after a
\* plain schema name. The declaration of a procedure of that name, the
\* tokens parted by sep.
QuotedNames == {"\"p\"", "\"p_1\"", "\"My Proc\"", "\"a$b\"", "\"My\nProc\"", "\"Ã©\""}
Separators == {" ", "\n"}
Declaration(name, sep) ==
    "CREATE PROCEDURE" \o sep \o name \o sep \o "AS BEGIN null; END;\n"

NextNames ==
    \E flags \in ValidFlags, limit \in TextLimits, name \in QuotedNames, sep \in Separators :
        NormalizeBytes(flags, limit, Declaration(name, sep))

SpecNames == Init /\ [][NextNames]_vars

\* Procedures whose body holds one q'X literal: the delimiters X, what stands
\* between the delimiters, and the text.
QDelimiters == {"[", "{", "<", "(", "!", ".", "*", "\\"}
Closer(x) ==
    CASE x = "[" -> "]"
      [] x = "{" -> "}"
      [] x = "<" -> ">"
      [] x = "(" -> ")"
      [] OTHER -> x
QBodies(x) ==
    {"a'b", "a\"b'c", " -- a' /* b", " create function f is '", "a\n'b' \n",
     "a" \o Closer(x) \o "b'c"}
QLiteral(x, body) == "q'" \o x \o body \o Closer(x) \o "'"
QText(x, body) == "create procedure p as x := " \o QLiteral(x, body) \o " || y;\n"
NextQ ==
    \E flags \in ValidFlags, limit \in TextLimits, x \in QDelimiters :
        \E body \in QBodies(x) : NormalizeBytes(flags, limit, QText(x, body))
SpecQ == Init /\ [][NextQ]_vars

\* Declarations whose tokens are set apart by runs of whitespace, line ends
\* and comments, with a plain or a quoted name, normalized with no_spaces.
NoSpacesFlags == {f \in ValidFlags : "no_spaces" \in f}
Gaps == {"  ", "\n", " /* c */ ", " -- c\n \n"}
GapNames == {"p", "\"p q\"", "\"p  q\""}
Spaced(name, g, h) ==
    "create" \o g \o "procedure" \o h \o name \o g \o "as" \o h \o "x;\n"
NextSpaced ==
    \E flags \in NoSpacesFlags, limit \in TextLimits, name \in GapNames, g \in Gaps, h \in Gaps :
        NormalizeBytes(flags, limit, Spaced(name, g, h))
SpecSpaced == Init /\ [][NextSpaced]_vars

\* Procedures with comments before the declaration, in it and in the body,
\* beside a literal and a quoted name that hold comment marks, normalized
\* with comments_only.
CommentTexts ==
    {a \o "create procedure \"p\" " \o b \o c :
        a \in {"", "--c\n", "/*c*/ ", "/*c\nc*/\n"},
        b \in {"as\n", "wrapped\n", "as --c\n", "/*c*/ as\n"},
        c \in {"", "x; /*c*/ y;\n", "x := '--c'; --c\n", "x /*c\n  c*/ y\n", "\"/*c*/\" --c"}}
NextComments ==
    \E limit \in TextLimits, data \in CommentTexts :
        NormalizeBytes({"comments_only"}, limit, data)
SpecComments == Init /\ [][NextComments]_vars

\* Texts of up to two lines with carriage returns at the line ends and
\* inside a quoted name, a literal, a q-literal, comments and a wrapped body.
ReturnLines ==
    {"", "create procedure \"p\r\" as\r\n", "x := 'a\rb' || q'[\r]';\r\n", "-- c\r\r\n",
     "/* c\r */ y\r\n", "create procedure p wrapped\r\n", "ab\rcd\r\n", "\r"}
NextReturns ==
    \E flags \in ValidFlags, a \in ReturnLines, b \in ReturnLines :
        NormalizeBytes(flags, 0, a \o b)
SpecReturns == Init /\ [][NextReturns]_vars

\* Declarations whose object name holds bytes that are not ASCII, a byte no
\* UTF-8 text holds or a two-byte UTF-8 letter, on the three paths that
\* read a name: between double quotes, as the first word of a line of its
\* own, and before the keyword AS on the line of the object type.
ForeignNames == {"pÿ", "pÃ©"}
ForeignText(path, name) ==
    CASE path = "quoted" -> "create procedure \"" \o name \o " q\" as\n"
      [] path = "line" -> "create procedure\n" \o name \o "\nas\n"
      [] OTHER -> "create procedure " \o name \o " as\n"
\* normalize(fl, flags, lines) called on a file the caller opened and left at
\* the position pos, and run to its end.
NormalizeStream(flags, limit, data, pos) ==
    /\ pc = "idle"
    /\ call' = [method |-> "normalize", flags |-> flags, limit |-> limit,
                kind |-> "stream", data |-> data, pos |-> pos]
    /\ \E r \in {normalize(Argument("stream", data, pos), flags, limit)} :
           /\ write_to' = r.out
           /\ loop' = r.loop
           /\ files' = [open |-> r.open, pos |-> r.fl.pos]
           /\ Exit("normalize", r.self, r.exc)
    /\ UNCHANGED line

\* Texts with every flag set, valid or not, as bytes and as a stream left at
\* its start or at its end.
NextStreams ==
    \/ \E flags \in SUBSET Flags, limit \in {0, 1}, data \in Texts :
           NormalizeBytes(flags, limit, data)
    \/ \E flags \in SUBSET Flags, limit \in {0, 1}, data \in Texts :
           \E pos \in {0, Len(data)} : NormalizeStream(flags, limit, data, pos)

SpecStreams == Init /\ [][NextStreams]_vars

\* A call of normalize on an instance earlier calls have used.
NormalizeAgain(flags, limit, data) ==
    /\ pc \in {"idle", "returned", "raised"}
    /\ call' = [method |-> "normalize", flags |-> flags, limit |-> limit,
                kind |-> "bytes", data |-> data, pos |-> 0]
    /\ \E r \in {normalize_on(self, Argument("bytes", data, 0), flags, limit)} :
           /\ write_to' = r.out
           /\ loop' = r.loop
           /\ files' = [open |-> r.open, pos |-> r.fl.pos]
           /\ Exit("normalize", r.self, r.exc)
    /\ UNCHANGED line

\* A predicate called on an instance earlier calls have used.
PredicateAgain(method, data) ==
    /\ pc \in {"idle", "returned", "raised"}
    /\ call' = [method |-> method, flags |-> PropsFlags, limit |-> 0,
                kind |-> "bytes", data |-> data, pos |-> 0]
    /\ \E r \in {normalize_on(self, Argument("bytes", data, 0), PropsFlags, 0)} :
           /\ write_to' = r.out
           /\ files' = [open |-> is_props_files(r.open, r.exc), pos |-> r.fl.pos]
           /\ Exit(method, r.self, r.exc)
    /\ UNCHANGED <<loop, line>>

\* The inputs of the calls that follow one another on one instance: texts
\* that end inside a comment, a literal, a quoted name and a wrapped body,
\* that raise in the loop and after it, and that are normalized to their end.
ReuseTexts ==
    {"", "x;\n", "/* c\n", "'a\n", "\"p\n", "create or\n", "p as\n", "q\" as\n",
     "create procedure \"p q\n", "create procedure p wrapped\na\n",
     "create procedure p as\ncreate\n", "create procedure pÿ as\n"}
ReuseFlags ==
    {{}, {"no_spaces", "uppercase"}, {"no_literals"}, PropsFlags,
     {"comments_only"}, {"comments_only", "uppercase"}}

NextReuse ==
    \/ \E flags \in ReuseFlags, data \in ReuseTexts : NormalizeAgain(flags, 0, data)
    \/ \E method \in Predicates, data \in ReuseTexts : PredicateAgain(method, data)

SpecReuse == Init /\ [][NextReuse]_vars

\* ---------------------------------------------------- wrapper: whole calls

\* The payloads of wrapped objects: the source compressed by zlib into one
\* stored block, each byte replaced by its offset in _charmap, twenty bytes of
\* a SHA-1 put before, the whole in base64.
Packages ==
    {[source |-> "procedure p as begin null; end;",
      base64 |-> "VPwD/zBWpwZwAkFA/K+wGhc+9uIw+/sspo+1uMAgCwGRMsAByrjKOMfK4AEX3kjKSDJ+ftrKAUiR2lP1mf0="],
     [source |-> "package body p as end;",
      base64 |-> "Y6g5iAdD8X5HEsYp6Lymfd61XcAw+/tvpim1uDgL9jgXAcrgIJFCyrjKOMfKAUiR2nGkWy0="],
     [source |-> "PACKAGE p as end;",
      base64 |-> "t7qiedFIZVLjvjhfCphVLk4g/5Yw+/vzprm1aTWEDDWA6cq4yjjHygFIkdrVq0Qd"]}

\* _decode_base64_package(pkg) as one step: loop holds its locals, the bytes
\* b64decode gave and the bytes after the substitution.
DecodePackage(pkg) ==
    /\ pc = "idle"
    /\ call' = [method |-> "_decode_base64_package", flags |-> {}, limit |-> 0,
                kind |-> "bytes", data |-> pkg, pos |-> 0]
    /\ \E payload \in {b64decode(pkg)} :
           IF payload.exc # NoExc
           THEN /\ loop' = [payload |-> <<>>, decoded |-> <<>>]
                /\ exc' = payload.exc
                /\ ret' = None
                /\ pc' = "raised"
           ELSE \E decoded \in {substituted(payload.out)} :
                \E r \in {decompress(decoded)} :
                    /\ loop' = [payload |-> payload.out, decoded |-> decoded]
                    /\ exc' = r.exc
                    /\ ret' = IF r.exc # NoExc THEN None ELSE Text(r.out)
                    /\ pc' = IF r.exc # NoExc THEN "raised" ELSE "returned"
    /\ UNCHANGED <<self, line, write_to, caught, files>>

\* The payloads whole and cut short after any number of characters.
NextPackages ==
    \E p \in Packages : \E k \in 0..Len(p.base64) : DecodePackage(Slice(p.base64, 0, k))

SpecPackages == Init /\ [][NextPackages]_vars

\* A wrapped text as the wrap utility writes it: the declaration, the lines
\* of the version, the line of the two lengths, the payload in lines of
\* seventy-two characters, an empty line and a slash. hex(n) is Python's
\* "%x" % n.
RECURSIVE hex(_)
hex(n) == IF n < 16 THEN ByteAt(HexDigits, n) ELSE hex(n \div 16) \o ByteAt(HexDigits, n % 16)

PayloadLines(base64) ==
    IF Len(base64) <= 72 THEN base64 \o "\n"
    ELSE Slice(base64, 0, 72) \o "\n" \o Slice(base64, 72, Len(base64)) \o "\n"

Wrapped(decl, pkg, shape) ==
    IF shape = "declaration" THEN decl \o "\n"
    ELSE IF shape = "version" THEN decl \o "\na000000\n1\nabcd\n7\n"
    ELSE decl \o "\na000000\n1\nabcd\n7\n"
         \o hex(Len(pkg.source)) \o " " \o hex(Len(PayloadLines(pkg.base64))) \o "\n"
         \o (IF shape = "cut" THEN Slice(pkg.base64, 0, 40) \o "\n"
             ELSE PayloadLines(pkg.base64) \o "\n/\n")

WrapCreates == {"create", "create or replace"}
WrapTypes == {"procedure", "function", "package", "package body", "trigger"}
WrapNames == {"p", "s.p"}
WrapWords == {"wrapped", "as"}
WrapShapes == {"declaration", "version", "whole", "cut"}
PlainTexts == {"", "\n", "select 1 from dual;\n", "a000000\n1f 56\n", "/\n"}

\* unwrap_buf(fl_in) called on a stream at its start and run to its end: ret
\* holds the bytes returned, loop the number of wrapped headers the scan met.
Unwrap(data) ==
    /\ pc = "idle"
    /\ call' = [method |-> "unwrap_buf", flags |-> {}, limit |-> 0,
                kind |-> "stream", data |-> data, pos |-> 0]
    /\ \E r \in {unwrap_buf(File(data, 0))} :
           /\ loop' = [headers |-> r.headers, resets |-> r.resets]
           /\ files' = [open |-> r.open, pos |-> r.fl.pos]
           /\ exc' = r.exc
           /\ ret' = IF r.exc # NoExc THEN None ELSE r.ret
           /\ pc' = IF r.exc # NoExc THEN "raised" ELSE "returned"
    /\ UNCHANGED <<self, line, write_to, caught>>

NextUnwrap ==
    \/ \E c \in WrapCreates, t \in WrapTypes, n \in WrapNames, w \in WrapWords,
          pkg \in Packages, shape \in WrapShapes :
           Unwrap(Wrapped(c \o " " \o t \o " " \o n \o " " \o w, pkg, shape))
    \/ \E data \in PlainTexts : Unwrap(data)

SpecUnwrap == Init /\ [][NextUnwrap]_vars

\* Files of two wrapped objects. The length in an object's header counts
\* the newline that ends its payload (ending "counted"), or does not, so
\* that the newline is read beyond the payload ("newline"), or the
\* payload's last line goes on with the start of a declaration ("text").
Endings == {"counted", "newline", "text"}
EndingText == "create package"
Declared(source) ==
    Slice(source, 0, CHOOSE i \in 0..Len(source) :
                         /\ Slice(source, i, i + 4) = " as "
                         /\ \A j \in 0..(i - 1) : Slice(source, j, j + 4) # " as ")
Object(create, pkg, ending) ==
    create \o " " \o Lower(Declared(pkg.source))
    \o " wrapped\na000000\n1\nabcd\n7\n"
    \o hex(Len(pkg.source)) \o " "
    \o hex(IF ending = "counted" THEN Len(PayloadLines(pkg.base64))
           ELSE Len(PayloadLines(pkg.base64)) - 1) \o "\n"
    \o Slice(PayloadLines(pkg.base64), 0, Len(PayloadLines(pkg.base64)) - 1)
    \o (IF ending = "text" THEN EndingText ELSE "") \o "\n"
NextSeveral ==
    \E c1 \in WrapCreates, c2 \in WrapCreates, p1 \in Packages, p2 \in Packages,
       e1 \in Endings, e2 \in Endings :
        Unwrap(Object(c1, p1, e1) \o Object(c2, p2, e2))
SpecSeveral == Init /\ [][NextSeveral]_vars

\* The lines the searches are tried on: two lexemes, keywords and markers
\* of contexts, with or without a space before, between and after them.
SearchTokens == {"create", "or", "is", "body", "wrapped", "--", "/*", "'", "q'x", "\"", "x", ""}
SearchGaps == {"", " "}
SearchLines ==
    {g1 \o t1 \o g2 \o t2 \o "\n" : g1 \in SearchGaps, g2 \in SearchGaps,
                                    t1 \in SearchTokens, t2 \in SearchTokens}

\* A dictionary given to _search_regexp_on_dict in which patterns of two
\* keys, and two patterns of one key, match at the same offset.
TiedPatterns == <<
    [context |-> "first", regs |-> << Keyword({"or", "is"}), Keyword({"or"}) >>],
    [context |-> "second", regs |-> << Keyword({"is", "body"}),
                                       [kind |-> "literal", words |-> {}, lit |-> "'", end |-> "'"],
                                       [kind |-> "literal", words |-> {}, lit |-> "'x", end |-> "x"] >>] >>
Dictionaries ==
    [declaration |-> re_objects_decl, body |-> re_objects_body, tied |-> TiedPatterns]

\* _search_regexp_on_dict(line, regxps) and _search_combine_regex(line) as
\* one step each: loop holds the dictionary returned, NoResult for None.
SearchOnDict(l, d) ==
    /\ pc = "idle"
    /\ call' = [method |-> "_search_regexp_on_dict", flags |-> {}, limit |-> 0,
                kind |-> d, data |-> l, pos |-> 0]
    /\ loop' = search_regexp_on_dict(l, Dictionaries[d])
    /\ pc' = "returned"
    /\ UNCHANGED <<self, line, write_to, caught, exc, ret, files>>

SearchCombine(l) ==
    /\ pc = "idle"
    /\ call' = [method |-> "_search_combine_regex", flags |-> {}, limit |-> 0,
                kind |-> "combined", data |-> l, pos |-> 0]
    /\ loop' = search_combine_regex(l)
    /\ pc' = "returned"
    /\ UNCHANGED <<self, line, write_to, caught, exc, ret, files>>

NextSearch ==
    \/ \E l \in SearchLines, d \in DOMAIN Dictionaries : SearchOnDict(l, d)
    \/ \E l \in SearchLines : SearchCombine(l)

SpecSearch == Init /\ [][NextSearch]_vars

\* Procedures with comments before CREATE (their text holds 1), inside the
\* declaration (2), after AS on its line (3) and in the body (4); the code
\* holds no digit, hyphen or asterisk.
KeptTexts ==
    {a \o "create" \o b \o "procedure p" \o c \o "as" \o d \o e :
        a \in {"", "-- 1\n", "/* 1 */\n", "/* 1\n1 */ "},
        b \in {" ", " /* 2 */ "},
        c \in {" ", " -- 2\n"},
        d \in {"\n", " -- 3\n", " /* 3 */\n"},
        e \in {"", "x := 'a'; -- 4\n", "x /* 4\n 4 */ y;\n", "/* 4 */", "--4"}}
KeptFlags ==
    {{}, {"uppercase"}, {"no_comments"}, {"no_comments", "no_spaces"}, fl_full}
NextKept ==
    \E flags \in KeptFlags, data \in KeptTexts : NormalizeBytes(flags, 0, data)
SpecKept == Init /\ [][NextKept]_vars

\* Procedures with a line comment between two tokens: before is the text up
\* to the comment and ends with the token t1, after is the next line and
\* starts with the token t2.
Glued ==
    {[before |-> "create", after |-> "procedure p as\n", t1 |-> "CREATE", t2 |-> "PROCEDURE"],
     [before |-> "create procedure", after |-> "p as\n", t1 |-> "PROCEDURE", t2 |-> "P"],
     [before |-> "create procedure p", after |-> "as\nx;\n", t1 |-> "P", t2 |-> "AS"],
     [before |-> "create procedure p as", after |-> "x;\n", t1 |-> "AS", t2 |-> "X;"],
     [before |-> "create procedure p as\nx;", after |-> "y;\n", t1 |-> "X;", t2 |-> "Y;"],
     [before |-> "create procedure p as\nbegin", after |-> "null;", t1 |-> "BEGIN",
      t2 |-> "NULL;"]}
GlueText(g, gap, comment) == g.before \o gap \o comment \o g.after
GlueGaps == {" ", "\t "}
GlueComments == {"--c\n", "-- c /* c\n", "--\r\n"}
GlueFlags == {f \in ValidFlags : "comments_only" \notin f}
NextGlue ==
    \E flags \in GlueFlags, g \in Glued, gap \in GlueGaps, comment \in GlueComments :
        NormalizeBytes(flags, 0, GlueText(g, gap, comment))
SpecGlue == Init /\ [][NextGlue]_vars

\* Texts in which the token t1 ends a line and the token t2 starts the next:
\* in the declaration or in the body, with whitespace at the start of the
\* second line or without, and with a block comment that is open from the
\* end of the first line to the start of the second (inside is TRUE).
Joints ==
    {[text |-> "create\nprocedure p as\n", t1 |-> "CREATE", t2 |-> "PROCEDURE",
      declaration |-> TRUE, inside |-> FALSE],
     [text |-> "create procedure\np as\nx;\n", t1 |-> "PROCEDURE", t2 |-> "P",
      declaration |-> TRUE, inside |-> FALSE],
     [text |-> "create procedure p\n  as\nx;\n", t1 |-> "P", t2 |-> "AS",
      declaration |-> TRUE, inside |-> FALSE],
     [text |-> "'x'\ncreate procedure p as\n", t1 |-> "''", t2 |-> "CREATE",
      declaration |-> TRUE, inside |-> FALSE],
     [text |-> "create procedure\np/* c\n*/as\nx;\n", t1 |-> "P", t2 |-> "AS",
      declaration |-> TRUE, inside |-> TRUE],
     [text |-> "create/* c\n*/ procedure p as\n", t1 |-> "CREATE", t2 |-> "PROCEDURE",
      declaration |-> TRUE, inside |-> TRUE],
     [text |-> "create procedure p as\nx;\ny;\n", t1 |-> "X;", t2 |-> "Y;",
      declaration |-> FALSE, inside |-> FALSE],
     [text |-> "create procedure p as\nx;\n  y;\n", t1 |-> "X;", t2 |-> "Y;",
      declaration |-> FALSE, inside |-> FALSE],
     [text |-> "create procedure p as\nx/* c\n*/y;\n", t1 |-> "X", t2 |-> "Y;",
      declaration |-> FALSE, inside |-> TRUE]}
NextJoints ==
    \E flags \in GlueFlags, j \in Joints : NormalizeBytes(flags, 0, j.text)
SpecJoints == Init /\ [][NextJoints]_vars

\* The lines of a wrapped object: the declaration on one line and on two,
\* and lines of the body, with letters of both cases, whitespace at the
\* start, a carriage return, the markers of a quoted name, a literal and the
\* comments, a blank line, and a declaration keyword.
WrappedLines ==
    {"create procedure p wrapped\n", "create procedure p\n", "wrapped\n",
     "ab\n", " cD\n", "x \"y\n", "'x -- /*\n", "a\r\n", " \n", "is\n"}
NextWrappedBody ==
    \/ \E flags \in ValidFlags : Normalize(flags, 0)
    \/ \E l \in WrappedLines : ReadLine(l)
    \/ Consume
    \/ Finish
SpecWrappedBody == Init /\ [][NextWrappedBody]_vars

\* _normalize_line called on a line by an instance that has read the line
\* before it, with room frames left on the interpreter's stack; loop holds
\* the number of frames the call needs, counted as the least room with
\* which it does not end in RecursionError.
FrameTokens == {"'", "\"", "--", "/*", "*/", " ", "x", "q'[", "]'"}
FrameLines ==
    {a \o b \o c \o e : a \in FrameTokens, b \in FrameTokens \cup {""},
                        c \in {"", "'"}, e \in {"", "\n"}}
    \cup {"''''''\n", "\"\"\"\"\"\"", "'' --\n", "/**/''/**/\n", "\n"}
FrameBefore == {"", "create procedure p as\n", "create procedure\n", "/*\n", "create procedure p as '\n"}
FrameFlags == {{}, {"no_comments"}, {"comments_only"}}
FramesOf(s, l) ==
    CHOOSE k \in 1..(StackLimit + 1) :
        /\ k <= StackLimit => normalize_line(s, l, StackLimit - k + 1).exc # RecursionError
        /\ \A j \in 1..(k - 1) : normalize_line(s, l, StackLimit - j + 1).exc = RecursionError
NormalizeLine(flags, before, l) ==
    /\ pc = "idle"
    /\ call' = [method |-> "_normalize_line", flags |-> flags, limit |-> 0,
                kind |-> before, data |-> l, pos |-> 0]
    /\ \E s \in {normalize_line([ResetState EXCEPT !.process_flags = flags], before, 1).self} :
       \E r \in {normalize_line(s, l, 1)} :
           /\ loop' = [frames |-> FramesOf(s, l)]
           /\ self' = r.self
           /\ ret' = r.ret
           /\ exc' = r.exc
           /\ pc' = IF r.exc = NoExc THEN "returned" ELSE "raised"
    /\ UNCHANGED <<line, write_to, caught, files>>
NextFrames ==
    \E flags \in FrameFlags, before \in FrameBefore, l \in FrameLines :
        NormalizeLine(flags, before, l)
SpecFrames == Init /\ [][NextFrames]_vars

\* Wrapped objects declared under names with and without dots and double
\* quotes; schema is the name up to its first dot outside double quotes,
\* upper-cased, the whole name if it has no such dot.
SchemaNames ==
    {[name |-> "p", schema |-> "P"],
     [name |-> "s.p", schema |-> "S"],
     [name |-> "s.t.p", schema |-> "S"],
     [name |-> "\"s\".p", schema |-> "\"S\""],
     [name |-> "\"s\".\"p\"", schema |-> "\"S\""],
     [name |-> "\"s.t\".p", schema |-> "\"S.T\""],
     [name |-> "\"s.t\".\"p.q\"", schema |-> "\"S.T\""],
     [name |-> "s.\"p.q\"", schema |-> "S"],
     [name |-> "\"a.b\"", schema |-> "\"A.B\""]}
SchemaCreates == {"create", "create or replace", "Create  Or\tReplace", "create or\nreplace"}
SchemaText(c, pkg, n) ==
    Wrapped(c \o " " \o Lower(Slice(Declared(pkg.source), 0, Len(Declared(pkg.source)) - 2))
              \o " " \o n.name \o " wrapped", pkg, "whole")
NextSchema ==
    \E c \in SchemaCreates, pkg \in Packages, n \in SchemaNames :
        Unwrap(SchemaText(c, pkg, n))
SpecSchema == Init /\ [][NextSchema]_vars

NextForeign ==
    \E flags \in ValidFlags, limit \in TextLimits, name \in ForeignNames,
       path \in {"quoted", "line", "before"} :
        NormalizeBytes(flags, limit, ForeignText(path, name))
SpecForeign == Init /\ [][NextForeign]_vars

\* ------------------------------------------------------------ the claims

\* A flag set in conflict: no_spaces without no_comments, or comments_only
\* with any other flag. The errors _check_flags raises for them.
Conflicting(flags) ==
    \/ "no_spaces" \in flags /\ "no_comments" \notin flags
    \/ "comments_only" \in flags /\ flags # {"comments_only"}
ConfigErrors == {"no_spaces without no_comments", "comments_only is incompatible"}

\* A line holds one of the words as a whitespace-delimited word.
HasWord(l, words) == \E p \in 0..(Len(l) - 1) : KeywordAt(words, l, p) >= 0

\* A step that reads a line, and a step that ends the call with a
\* normalization error: raised by normalize, caught by a predicate.
Reads == pc = "loop" /\ line' # ""
FailsNormalization ==
    IF call.method = "normalize"
    THEN pc' = "raised" /\ exc'.type = "PLSQLNormalizationError"
    ELSE pc' = "returned" /\ caught'.type = "PLSQLNormalizationError" /\ ret' = "False"

\* The declaration phase: after CREATE, before AS, IS or WRAPPED, outside
\* any context.
Declaring(s) ==
    s.create_found /\ ~s.as_found /\ ~s.wrapped /\ parsecontext(s) = None

\* C1: normalize rejects a conflicting flag set with the configuration error
\* before a line is read or a byte is written, and its check accepts every
\* other subset of the five flags.
C1_FlagCheck ==
    call.method = "normalize" =>
        IF Conflicting(call.flags)
        THEN /\ pc = "raised"
             /\ exc.type = "PLSQLNormalizationError"
             /\ exc.msg \in ConfigErrors
             /\ loop.lines = 0
             /\ line = ""
             /\ write_to = ""
        ELSE exc.msg \notin ConfigErrors
C1_Witness ==
    /\ call.method = "normalize"
    /\ call.flags = {"comments_only", "uppercase"}
    /\ pc = "raised"

\* C2: in every state of a pass at most one of the three contexts is active,
\* an active context has its end pattern set, and a context is entered only
\* when no context is active.
C2_OneContext ==
    /\ Cardinality({c \in {"comment", "literal", "object_name"} :
           \/ c = "comment" /\ self.comment_started
           \/ c = "literal" /\ self.literal_started
           \/ c = "object_name" /\ self.object_name_started}) <= 1
    /\ parsecontext(self) # None => self.re_endobj # None
    /\ self.entered_from \subseteq {None}
C2_Witness ==
    /\ pc = "wrote"
    /\ "comments_only" \in self.process_flags
    /\ line = "*/ '\n"
    /\ startswith(write_to, "*/")
    /\ self.literal_started
    /\ self.re_endobj = "'"

\* C3: as_found or wrapped is set only with create_found set and the object
\* type and name known; AS or WRAPPED met in the declaration phase with the
\* type or the name missing raises a normalization error and sets neither.
C3_DeclarationComplete ==
    (self.as_found \/ self.wrapped) =>
        self.create_found /\ self.object_type # None /\ self.object_name # None
C3_EarlyAs ==
    (/\ Reads
     /\ Declaring(self)
     /\ self.object_type = None \/ self.object_name = None
     /\ line' \in {"as\n", "wrapped\n"})
    => FailsNormalization /\ ~self'.as_found /\ ~self'.wrapped
C3_AsNeedsDeclaration == [](C3_DeclarationComplete) /\ [][C3_EarlyAs]_vars
C3_Witness ==
    /\ call.method = "normalize"
    /\ pc = "raised"
    /\ line = "as\n"
    /\ exc.msg = "object name is not parsed"
    /\ self.object_type = "PROCEDURE"

\* C4: replace_found is set only after or_found; REPLACE met in the
\* declaration phase before any OR raises a normalization error.
C4_OrFirst == self.replace_found => self.or_found
C4_EarlyReplace ==
    (/\ Reads
     /\ Declaring(self)
     /\ ~self.or_found
     /\ line' = "replace\n")
    => FailsNormalization /\ ~self'.replace_found
C4_ReplaceNeedsOr == [](C4_OrFirst) /\ [][C4_EarlyReplace]_vars
C4_Witness ==
    /\ call.method = "normalize"
    /\ pc = "raised"
    /\ line = "replace\n"
    /\ exc.msg = "replace found before or"

\* C5: until CREATE is recognised normalize writes no byte that is not part
\* of a comment; only with comments_only are comments written at all, so
\* without it nothing but whitespace is written before CREATE.
C5_NothingBeforeCreate ==
    (/\ call.method = "normalize"
     /\ pc = "wrote"
     /\ ~self.create_found
     /\ "comments_only" \notin self.process_flags)
    => strip(write_to) = ""

\* C6: once WRAPPED is recognised, a later line, or the rest of the line
\* that carried WRAPPED, that holds CREATE, REPLACE or WRAPPED as a word
\* ends the call with a normalization error.
WrappedFatal == {"create", "replace", "wrapped"}
C6_LaterLine == self.wrapped /\ HasWord(line', WrappedFatal)
C6_SameLine ==
    /\ Declaring(self)
    /\ self.object_type # None
    /\ self.object_name # None
    /\ startswith(Lower(line'), "wrapped ")
    /\ HasWord(Slice(line', Len("wrapped "), Len(line')), WrappedFatal)
C6_WrappedStep == (Reads /\ (C6_LaterLine \/ C6_SameLine)) => FailsNormalization
C6_WrappedIsFinal == [][C6_WrappedStep]_vars
C6_Witness ==
    /\ call.method = "normalize"
    /\ pc = "raised"
    /\ self.wrapped
    /\ line = "wrapped create\n"
    /\ exc.msg = "wrong wrapped content"

\* C7: is_sql returns true exactly when the pass ended without an error with
\* create_found set and the object type and name known, and returns false,
\* on a reset instance, when the pass raised a normalization error.
C7_IsSql ==
    (call.method = "is_sql" /\ pc = "returned") =>
        /\ ret = "True" <=>
               /\ caught = NoExc
               /\ self.create_found
               /\ self.object_type # None
               /\ self.object_name # None
        /\ caught.type = "PLSQLNormalizationError" => ret = "False" /\ self = ResetState
C7_Witness ==
    /\ call.method = "is_sql"
    /\ pc = "returned"
    /\ caught.msg = "keyword inside an object body"
    /\ ret = "False"

\* C8: is_wrappable is true exactly when is_sql holds, AS or IS was reached
\* and the type is PROCEDURE, FUNCTION or PACKAGE BODY; it is false for a
\* PACKAGE, for a TRIGGER and wherever is_wrapped is true.
C8_IsWrappable ==
    (call.method \in Predicates /\ pc = "returned") =>
        /\ call.method = "is_wrappable" =>
               (ret = "True" <=>
                    /\ self.create_found
                    /\ self.object_type \in {"PROCEDURE", "FUNCTION", "PACKAGE BODY"}
                    /\ self.object_name # None
                    /\ self.as_found)
        /\ (call.method = "is_wrappable" /\ self.object_type \in {"PACKAGE", "TRIGGER"})
               => ret = "False"
        /\ is_wrapped_value(self) => ~is_wrappable_value(self)
C8_Witness ==
    /\ call.method = "is_wrappable"
    /\ pc = "returned"
    /\ self.object_type = "PROCEDURE"
    /\ self.wrapped
    /\ ret = "False"

\* C9: is_sql, is_wrapped and is_wrappable never let an exception out:
\* every failure of the pass is caught and answered false.
C9_PredicatesNeverRaise == call.method \in Predicates => pc # "raised"

\* C10: a predicate answers the same on a content whether it is passed as
\* bytes, as a stream at any position, or by the path of a file holding it.
Outcome(method, r) ==
    IF r.exc = NoExc \/ r.exc.type \in Catches
    THEN <<"returned", Bool(props_value(method, props_state(r.self, r.exc))), "">>
    ELSE <<"raised", None, r.exc.type>>
C10_SameAnswer ==
    pc \in {"returned", "raised"} =>
        <<pc, ret, exc.type>> =
            Outcome(call.method, normalize(Argument("bytes", call.data, 0), PropsFlags, 0))
C10_Witness ==
    /\ pc = "returned"
    /\ call.method = "is_wrappable"
    /\ call.kind = "stream"
    /\ call.pos = Len(call.data)
    /\ call.data = "create procedure\np as\n"
    /\ ret = "True"

\* The number of lines readline returns on a text, and a call whose line
\* limit cut the text short: the text has more lines than the limit.
LineCount(data) ==
    Cardinality({i \in 0..(Len(data) - 1) : ByteAt(data, i) = "\n" \/ i = Len(data) - 1})
Truncated == call.limit # 0 /\ LineCount(call.data) > call.limit

\* C11: the output of a successful normalize ends with the terminator the
\* flags choose, two newlines and a slash without no_spaces, a space and a
\* slash with it; none is appended with comments_only or when the line
\* limit cut the input short.
C11_Terminator ==
    (call.method = "normalize" /\ pc = "returned") =>
        IF "comments_only" \in call.flags \/ Truncated
        THEN ~loop.add_slash
        ELSE endswith(write_to, IF "no_spaces" \in call.flags THEN " /" ELSE "\n\n/")

\* A call of normalize on a whole text that has ended.
Normalized(data, flags, limit) ==
    /\ call.method = "normalize"
    /\ pc \in {"returned", "raised"}
    /\ call.data = data
    /\ call.flags = flags
    /\ call.limit = limit

\* C12: the one-line procedure hello with no_comments, no_spaces and
\* uppercase gives the declaration in upper case, single spaces, the body
\* upper-cased on the same line, and the terminator of no_spaces, a space
\* and a slash, after the space that replaced the newline.
C12_Hello ==
    Normalized(Hello, fl_full, 0) =>
        /\ pc = "returned"
        /\ write_to = "CREATE OR REPLACE PROCEDURE HELLO AS BEGIN NULL; END;  /"
C12_Witness ==
    /\ Normalized(Hello, fl_full, 0)
    /\ startswith(write_to, "CREATE OR REPLACE PROCEDURE HELLO AS ")
    /\ endswith(write_to, " /")
\* C12 as stated: the output ends with two newlines and a slash.
C12_HelloNewlines ==
    Normalized(Hello, fl_full, 0) =>
        /\ pc = "returned"
        /\ startswith(write_to, "CREATE OR REPLACE PROCEDURE HELLO AS ")
        /\ endswith(write_to, "\n\n/")

\* C13: with comments_only alone, the line comment followed by the package
\* declared on one line normalizes without error to the comment line, and
\* the object type and name are parsed.
C13_TopComment ==
    Normalized(TopComment, {"comments_only"}, 0) =>
        /\ pc = "returned"
        /\ write_to = "-- top comment\n"
        /\ self.object_type = "PACKAGE"
        /\ self.object_name = "P"

\* A text whose body holds the literal lit, normalized to its end without
\* comments_only: with no_literals the output holds the delimiters with
\* nothing between them (emptied) and not the literal, otherwise it holds
\* the literal byte for byte.
LiteralEmitted(data, lit, emptied) ==
    (Normalized(data, call.flags, 0) /\ "comments_only" \notin call.flags) =>
        /\ pc = "returned"
        /\ IF "no_literals" \in call.flags
           THEN Contains(write_to, emptied) /\ ~Contains(write_to, lit)
           ELSE Contains(write_to, lit)

\* C14: a literal after CREATE is emitted as its delimiters alone with
\* no_literals and unchanged without it, whatever uppercase and no_spaces
\* are; a doubled quote makes two adjacent literals.
C14_Literals ==
    /\ LiteralEmitted(DoubledQuote, "'it''s'", "RETURN '''';")
    /\ LiteralEmitted(TwoLines, "'a\n b'", ":= '';")

\* The bytes between the quotes of a quoted identifier, and the identifiers
\* closed on the line they are opened on with word bytes only between the
\* quotes.
Inner(name) == Slice(name, 1, Len(name) - 1)
WordsOnOneLine(name) == ~Contains(Inner(name), "\n") /\ ~HasNonWord(Inner(name))

Ends == pc \in {"loop", "eof"} /\ pc' \in {"returned", "raised"} /\ line' = line
MissingMetadata == {"object type not parsed", "object name not parsed"}

\* C16: normalize that reaches the end of its input with the object type or
\* the object name not parsed raises the error of the missing one, and so
\* never returns without both; the empty input and an input of comments
\* alone are such inputs under every valid flag set.
C16_Parsed ==
    (call.method = "normalize" /\ pc = "returned") =>
        self.object_type # None /\ self.object_name # None
C16_EndStep ==
    (/\ call.method = "normalize"
     /\ Ends
     /\ self.object_type = None \/ self.object_name = None)
    => /\ pc' = "raised"
       /\ exc'.type = "PLSQLNormalizationError"
       /\ exc'.msg \in MissingMetadata
C16_MissingMetadata == [](C16_Parsed) /\ [][C16_EndStep]_vars
C16_Witness ==
    /\ call.method = "normalize"
    /\ call.flags = {"comments_only"}
    /\ pc = "raised"
    /\ exc.msg = "object type not parsed"
    /\ loop.lines = 1
    /\ self.comment_started

\* C17: a literal opened by q'X ends at the first closing delimiter that a
\* single quote follows, the closing bracket of an opening bracket and X
\* itself otherwise, compared byte for byte; the quotes, comment marks and
\* keywords between do not end it, open nothing and leave the declaration
\* as it was. So the literal is written whole (emptied with no_literals),
\* the code after it is written as code, and the object stays procedure P.
C17_QLiteral ==
    \A x \in QDelimiters : \A body \in QBodies(x) :
        (/\ Normalized(QText(x, body), call.flags, call.limit)
         /\ "comments_only" \notin call.flags
         /\ ~Truncated)
        => /\ pc = "returned"
           /\ self.object_type = "PROCEDURE"
           /\ self.object_name = "P"
           /\ parsecontext(self) = None
           /\ Contains(write_to,
                  (IF "no_literals" \in call.flags THEN QLiteral(x, "") ELSE QLiteral(x, body))
                  \o (IF "uppercase" \in call.flags THEN " || Y;" ELSE " || y;"))
C17_Witness ==
    /\ Normalized(QText(".", "a\n'b' \n"), {"uppercase"}, 0)
    /\ pc = "returned"
    /\ Contains(write_to, "X := q'.a\n'b' \n.' || Y;")

\* C18: with no_comments, no_spaces and uppercase among the flags, the
\* output of a successful normalize of a whole text is normalized by the
\* same flags to itself, terminator included.
C18_Idempotent ==
    (/\ call.method = "normalize"
     /\ pc = "returned"
     /\ call.limit = 0
     /\ {"no_comments", "no_spaces", "uppercase"} \subseteq call.flags)
    => \E again \in {normalize(Argument("bytes", write_to, 0), call.flags, 0)} :
           /\ again.exc = NoExc
           /\ again.out = write_to

\* The declaration prefix of an output: its bytes up to the keyword AS and
\* with it, all of it when the keyword is not there. The offsets of the
\* prefix where two whitespace bytes stand side by side, and those of them
\* between the double quotes of a quoted name.
PrefixEnd(s) ==
    IF Contains(s, " AS")
    THEN 3 + CHOOSE p \in 0..(Len(s) - 3) :
                 /\ Slice(s, p, p + 3) = " AS"
                 /\ \A q \in 0..(p - 1) : Slice(s, q, q + 3) # " AS"
    ELSE Len(s)
Prefix(s) == Slice(s, 0, PrefixEnd(s))
SpaceRuns(s) == {i \in 0..(Len(s) - 2) : IsSpace(ByteAt(s, i)) /\ IsSpace(ByteAt(s, i + 1))}
InQuotes(s, i) == Cardinality({k \in 0..(i - 1) : ByteAt(s, k) = "\""}) % 2 = 1
NoSpacesDone ==
    call.method = "normalize" /\ pc = "returned" /\ "no_spaces" \in call.flags

RECURSIVE CodeBytes(_, _, _)
CodeBytes(s, i, mode) ==
    IF i >= Len(s) THEN ""
    ELSE IF mode = "literal"
    THEN CodeBytes(s, i + 1, IF ByteAt(s, i) = "'" THEN "code" ELSE mode)
    ELSE IF mode = "line"
    THEN CodeBytes(s, i + 1, IF ByteAt(s, i) = "\n" THEN "code" ELSE mode)
    ELSE IF mode = "block"
    THEN IF Slice(s, i, i + 2) = "*/" THEN CodeBytes(s, i + 2, "code")
         ELSE CodeBytes(s, i + 1, mode)
    ELSE IF ByteAt(s, i) = "'" THEN CodeBytes(s, i + 1, "literal")
    ELSE IF Slice(s, i, i + 2) = "--" THEN CodeBytes(s, i + 2, "line")
    ELSE IF Slice(s, i, i + 2) = "/*" THEN CodeBytes(s, i + 2, "block")
    ELSE ByteAt(s, i) \o CodeBytes(s, i + 1, "code")
LowerCaseCode(s) ==
    \E i \in 0..(Len(CodeBytes(s, 0, "code")) - 1) :
        UpperByte(ByteAt(CodeBytes(s, 0, "code"), i)) # ByteAt(CodeBytes(s, 0, "code"), i)
UppercaseDone ==
    call.method = "normalize" /\ pc = "returned" /\ "uppercase" \in call.flags

ScanModes == {"code", "literal", "name", "line", "opening", "block", "closing"}
ScanByte(s, i) ==
    [mode \in ScanModes |->
        CASE mode = "literal" ->
                 [mode |-> IF ByteAt(s, i) = "'" THEN "code" ELSE mode, out |-> ""]
          [] mode = "name" ->
                 [mode |-> IF ByteAt(s, i) = "\"" THEN "code" ELSE mode, out |-> ""]
          [] mode = "line" ->
                 [mode |-> IF ByteAt(s, i) = "\n" THEN "code" ELSE mode, out |-> ByteAt(s, i)]
          [] mode = "opening" -> [mode |-> "block", out |-> ByteAt(s, i)]
          [] mode = "closing" -> [mode |-> "code", out |-> ByteAt(s, i)]
          [] mode = "block" ->
                 [mode |-> IF Slice(s, i, i + 2) = "*/" THEN "closing" ELSE mode,
                  out |-> ByteAt(s, i)]
          [] OTHER ->
                 IF ByteAt(s, i) = "'" THEN [mode |-> "literal", out |-> ""]
                 ELSE IF ByteAt(s, i) = "\"" THEN [mode |-> "name", out |-> ""]
                 ELSE IF Slice(s, i, i + 2) = "--" /\ (i = 0 \/ IsSpace(ByteAt(s, i - 1)))
                      THEN [mode |-> "line", out |-> "-"]
                 ELSE IF Slice(s, i, i + 2) = "/*" THEN [mode |-> "opening", out |-> "/"]
                 ELSE [mode |-> "code", out |-> ""]]
RECURSIVE Scan(_, _, _)
Scan(s, a, b) ==
    IF b <= a THEN [mode \in ScanModes |-> [mode |-> mode, out |-> ""]]
    ELSE IF b = a + 1 THEN ScanByte(s, a)
    ELSE Bind(Scan(s, a, (a + b) \div 2), LAMBDA left :
         Bind(Scan(s, (a + b) \div 2, b), LAMBDA right :
         [mode \in ScanModes |->
             [mode |-> right[left[mode].mode].mode,
              out |-> left[mode].out \o right[left[mode].mode].out]]))
CommentBytes(s) == Scan(s, 0, Len(s))["code"].out

\* The bytes of out from offset i on are, in their order, bytes of cb from
\* offset j on, or newlines.
RECURSIVE OnlyFrom(_, _, _, _)
OnlyFrom(out, i, cb, j) ==
    IF i >= Len(out) THEN TRUE
    ELSE IF ByteAt(out, i) = "\n" THEN OnlyFrom(out, i + 1, cb, j)
    ELSE IF \E k \in j..(Len(cb) - 1) : ByteAt(cb, k) = ByteAt(out, i)
    THEN OnlyFrom(out, i + 1, cb,
                  1 + CHOOSE k \in j..(Len(cb) - 1) :
                          /\ ByteAt(cb, k) = ByteAt(out, i)
                          /\ \A m \in j..(k - 1) : ByteAt(cb, m) # ByteAt(out, i))
    ELSE FALSE

\* C21: with comments_only alone, the bytes normalize writes are bytes of
\* the comments of its input, in their order, and newlines; no byte of code,
\* of a literal, of a quoted name or of a wrapped body is written, no space
\* between lines and no terminator.
C21_CommentsOnly ==
    (call.method = "normalize" /\ call.flags = {"comments_only"})
    => OnlyFrom(write_to, 0, CommentBytes(call.data), 0)
C21_Witness ==
    /\ Normalized("/*c*/ create procedure \"p\" as --c\nx := '--c'; --c\n", {"comments_only"}, 0)
    /\ pc = "returned"
    /\ write_to = "/*c*/\n--c\n--c\n"

\* C24: whatever the input and the valid flags, normalize writes no carriage
\* return: those of the input are dropped from every line, inside literals,
\* comments, quoted names and wrapped bodies as well.
C24_NoCarriageReturn == call.method = "normalize" => ~Contains(write_to, "\r")
C24_Witness ==
    /\ Normalized("create procedure \"p\r\" as\r\nx := 'a\rb' || q'[\r]';\r\n", {}, 0)
    /\ pc = "returned"
    /\ write_to = "CREATE PROCEDURE P AS\nx := 'ab' || q'[]';\n\n\n/"

\* C25: when the bytes read as the object name hold a byte that is not
\* ASCII, normalize raises its normalization error that names the object
\* name, on each path that reads a name: between double quotes, first word
\* of a line, first word before a match.
C25_ForeignName ==
    \A name \in ForeignNames, path \in {"quoted", "line", "before"} :
        (/\ Normalized(ForeignText(path, name), call.flags, call.limit)
         /\ ~Truncated
         /\ "comments_only" \notin call.flags)
        => /\ pc = "raised"
           /\ exc = NormalizationError("non-ascii object name")

\* C26: when normalize has returned or raised, every temporary file it
\* created is closed, and a file the caller supplied is back at the position
\* the caller left it at.
C26_Released ==
    (call.method = "normalize" /\ pc \in {"returned", "raised"}) =>
        /\ files.open = {}
        /\ call.kind = "stream" => files.pos = call.pos

\* The paths of normalize where the claim of C26 does hold: the return, the
\* flags refused, and the errors raised after the loop.
C26_OutsideLoop ==
    (call.method = "normalize" /\ pc \in {"returned", "raised"}
        /\ (exc = NoExc \/ exc \in {check_flags(self), check_parsed(self)})) =>
        /\ files.open = {}
        /\ call.kind = "stream" => files.pos = call.pos

\* C28: a call on an instance that earlier calls have used gives the output,
\* the error, the answer and the final parse state of the same call on an
\* instance just constructed.
FreshCall == normalize(Argument("bytes", call.data, 0), call.flags, call.limit)
C28_Isolated ==
    pc \in {"returned", "raised"} =>
        /\ write_to = FreshCall.out
        /\ call.method = "normalize" =>
               /\ exc = FreshCall.exc
               /\ self = FreshCall.self
               /\ loop.lines = FreshCall.loop.lines
        /\ call.method # "normalize" =>
               IF FreshCall.exc = NoExc \/ FreshCall.exc.type \in Catches
               THEN /\ self = props_state(FreshCall.self, FreshCall.exc)
                    /\ ret = Bool(props_value(call.method, self))
                    /\ caught = FreshCall.exc
                    /\ exc = NoExc
               ELSE /\ self = FreshCall.self
                    /\ exc = FreshCall.exc

\* A predicate has answered on an instance that a call of normalize with
\* comments_only had used before: loop holds the locals of that call.
C28_Witness ==
    /\ pc = "returned"
    /\ call.data = "q\" as\n"
    /\ call.method = "is_sql"
    /\ ret = "False"
    /\ ~loop.add_slash
    /\ loop.lines = 1

\* C29: in every state of a normalize pass object_type is unset or one of
\* PROCEDURE, FUNCTION, PACKAGE, PACKAGE BODY and TRIGGER.
ObjectTypes == {"PROCEDURE", "FUNCTION", "PACKAGE", "PACKAGE BODY", "TRIGGER"}
C29_ObjectTypes == self.object_type \in ObjectTypes \cup {None}

\* What the code does keep: object_type is unset, one of the five types, or
\* BODY when BODY was the first object-type token.
C29_ObjectTypesOrBody == self.object_type \in ObjectTypes \cup {None, "BODY"}

\* C30: with no context active, a line that starts with CREATE read in the
\* declaration phase, and a line with the word CREATE, REPLACE or WRAPPED
\* read in the body phase, end the call with a syntax error; any other line
\* read in the body phase raises nothing and leaves the declaration fields
\* as they are. No line of Lines has a keyword behind a context opener.
BodyPhase(s) == s.as_found /\ parsecontext(s) = None
SyntaxErrors == {"create is duplicated", "keyword inside an object body"}
FailsSyntax(m) ==
    /\ FailsNormalization
    /\ (IF call.method = "normalize" THEN exc' ELSE caught').msg = m
DeclarationFields(s) ==
    <<s.create_found, s.or_found, s.replace_found, s.as_found, s.wrapped,
      s.object_type, s.object_name>>
C30_SecondCreate ==
    (Reads /\ Declaring(self) /\ startswith(Lower(line'), "create"))
        => FailsSyntax("create is duplicated")
C30_BodyFatal ==
    (Reads /\ BodyPhase(self) /\ HasWord(line', WrappedFatal))
        => FailsSyntax("keyword inside an object body")
C30_BodyOther ==
    (Reads /\ BodyPhase(self) /\ ~HasWord(line', WrappedFatal))
        => /\ pc' \in {"wrote", "eof"}
           /\ DeclarationFields(self') = DeclarationFields(self)
C30_Keywords == [][C30_SecondCreate /\ C30_BodyFatal /\ C30_BodyOther]_vars

\* REPLACE read in the body of a procedure has ended the call.
C30_Witness ==
    /\ call.method = "normalize"
    /\ pc = "raised"
    /\ self.as_found
    /\ line = "replace\n"
    /\ exc.msg = "keyword inside an object body"

\* AS and an object type read in the body have changed nothing.
C30_WitnessOther ==
    /\ pc = "wrote"
    /\ self.as_found
    /\ line \in {"as\n", "package\n", "or\n"}
    /\ loop.lines = MaxLines

\* C27: _charmap has 256 entries, each in 0..255 and no two equal; the
\* substitution turns a payload of n >= 20 bytes into n - 20 bytes, byte i of
\* which is the entry of _charmap for byte 20 + i of the payload.
C27_Permutation ==
    /\ Len(charmap) = 256
    /\ \A i \in 1..256 : charmap[i] \in 0..255
    /\ \A i, j \in 1..256 : charmap[i] = charmap[j] => i = j
C27_Substitution ==
    /\ C27_Permutation
    /\ (call.method = "_decode_base64_package" /\ exc.type # "binascii.Error"
            /\ Len(loop.payload) >= 20) =>
           /\ Len(loop.decoded) = Len(loop.payload) - 20
           /\ \A i \in 0..(Len(loop.decoded) - 1) :
                  loop.decoded[i + 1] = charmap[loop.payload[20 + i + 1] + 1]

\* A whole payload has been decoded to its source.
C27_Witness ==
    /\ call.method = "_decode_base64_package"
    /\ pc = "returned"
    /\ Len(loop.payload) = 62
    /\ Len(loop.decoded) = 42
    /\ ret = "procedure p as begin null; end;"

\* The answer of a predicate of the normalizer called on the bytes data by an
\* instance just constructed; FALSE when the call raises.
Answers(method, data) ==
    \E r \in {normalize(Argument("bytes", data, 0), PropsFlags, 0)} :
        /\ r.exc = NoExc \/ r.exc.type \in Catches
        /\ props_value(method, props_state(r.self, r.exc))

\* C22: when is_wrapped is true of the input of unwrap_buf, the call returns
\* bytes of which is_sql is true and is_wrapped is false.
C22_Unwrapped ==
    (call.method = "unwrap_buf" /\ Answers("is_wrapped", call.data)) =>
        /\ pc = "returned"
        /\ Answers("is_sql", ret)
        /\ ~Answers("is_wrapped", ret)

\* What does hold: bytes returned that start with the restored CREATE are a
\* declaration to is_sql and not a wrapped one to is_wrapped.
C22_Restored ==
    (call.method = "unwrap_buf" /\ pc = "returned" /\ startswith(ret, "CREATE ")) =>
        /\ loop.headers >= 1
        /\ Answers("is_sql", ret)
        /\ ~Answers("is_wrapped", ret)

\* C23: when the scan of unwrap_buf meets no wrapped header, a declaration
\* followed by a line of the two lengths, the call raises.
C23_NotWrapped ==
    (call.method = "unwrap_buf" /\ loop.headers = 0) => pc = "raised"

\* What does hold: without a wrapped header the call returns empty bytes and
\* leaves no temporary file open, and it raises only from the decoding of a
\* payload.
C23_Empty ==
    call.method = "unwrap_buf" =>
        /\ loop.headers = 0 => (pc = "returned" /\ ret = "" /\ files.open = {})
        /\ pc = "raised" => (loop.headers >= 1 /\ exc.type \in {"binascii.Error", "zlib.error"})

\* C31: a line read while a comment, a literal or a quoted name is open, and
\* that does not hold the end pattern, leaves the context, the end pattern,
\* the declaration flags, object_type and object_name as they were.
ContextOpen(s) == parsecontext(s) # None /\ ~s.wrapped
MissesEnd(s, l) == ~IsMatch(re_endobj_search(s.re_endobj, re_win_nl_sub(l)))
ReadsInside == Reads /\ ContextOpen(self) /\ MissesEnd(self, line') /\ pc' \in {"wrote", "eof"}
LexicalFields(s) ==
    <<s.comment_started, s.literal_started, s.object_name_started, s.re_endobj,
      s.create_found, s.or_found, s.replace_found, s.as_found, s.wrapped, s.object_type>>
C31_Frame ==
    [][ReadsInside =>
           /\ LexicalFields(self') = LexicalFields(self)
           /\ self'.object_name = self.object_name]_vars

\* The claim for the contexts _append_object_name is not to be called in.
C31_FrameOfLiterals ==
    [][(ReadsInside /\ parsecontext(self) \in {"comment", "literal"}) =>
           self'.object_name = self.object_name]_vars

\* What does hold: every field but object_name is left as it was, and
\* object_name too unless object_name_append is set, when it only grows.
C31_FrameButName ==
    [][ReadsInside =>
           /\ LexicalFields(self') = LexicalFields(self)
           /\ ~self.object_name_append => self'.object_name = self.object_name
           /\ startswith(self'.object_name, self.object_name)]_vars

\* C32: the result of a search is the match of the least start offset among
\* the matches of all the patterns; of matches at one offset it is the one
\* of the pattern that comes first, the declaration dictionary before the
\* body dictionary, a key before the later keys, a pattern of a key before
\* the later ones.
RECURSIVE PatternsOf(_, _)
PatternsOf(regxps, j) ==
    IF j > Len(regxps) THEN <<>>
    ELSE [i \in 1..Len(regxps[j].regs) |-> [context |-> regxps[j].context, reg |-> regxps[j].regs[i]]]
         \o PatternsOf(regxps, j + 1)
SearchedPatterns ==
    IF call.method = "_search_combine_regex"
    THEN PatternsOf(re_objects_decl, 1) \o PatternsOf(re_objects_body, 1)
    ELSE PatternsOf(Dictionaries[call.kind], 1)
Matching(pats, l) == {i \in 1..Len(pats) : IsMatch(Search(pats[i].reg, l))}
First(pats, l) ==
    CHOOSE i \in Matching(pats, l) : \A j \in Matching(pats, l) :
        \/ Search(pats[i].reg, l).start < Search(pats[j].reg, l).start
        \/ Search(pats[i].reg, l).start = Search(pats[j].reg, l).start /\ i <= j
C32_Earliest ==
    call.method \in {"_search_combine_regex", "_search_regexp_on_dict"} =>
        IF Matching(SearchedPatterns, call.data) = {} THEN loop = NoResult
        ELSE \E i \in {First(SearchedPatterns, call.data)} :
                 /\ loop.context = SearchedPatterns[i].context
                 /\ loop.match = Search(SearchedPatterns[i].reg, call.data)
                 /\ loop.end = make_reg_end(SearchedPatterns[i].reg, loop.match)

\* A keyword after the marker of a comment: the comment is the result. And a
\* quote inside the opening of a q-literal: the q-literal is the result.
C32_Witness ==
    /\ call.method = "_search_combine_regex"
    /\ call.data = "-- create\n"
    /\ loop.context = "comment"
    /\ loop.match.start = 0
C32_WitnessInside ==
    /\ call.method = "_search_combine_regex"
    /\ call.data = " q'x'\n"
    /\ loop.context = "literal"
    /\ loop.match = [start |-> 1, end |-> 4, group |-> "x"]
    /\ loop.end = "x'"
\* Two keys match at one offset: the first key is the result.
C32_WitnessTied ==
    /\ call.method = "_search_regexp_on_dict"
    /\ call.kind = "tied"
    /\ call.data = " is body\n"
    /\ loop.context = "first"

\* C33: without no_comments and comments_only, every comment that starts
\* after AS is written byte for byte and nothing of a comment that starts
\* before AS is written; with no_comments nothing of any comment is written.
MarkBytes == {"-", "*", "1", "2", "3", "4"}
CountOf(s, b) == Cardinality({i \in 0..(Len(s) - 1) : ByteAt(s, i) = b})
AfterAs(data) ==
    Slice(data, CHOOSE p \in 3..Len(data) : Slice(data, p - 3, p) \in {" as", "\nas"}, Len(data))
CommentsAfterAs == {" -- 3\n", " /* 3 */", " -- 4\n", "/* 4\n 4 */", "/* 4 */", "--4"}
C33_Comments ==
    (call.method = "normalize" /\ pc = "returned" /\ "comments_only" \notin call.flags) =>
        IF "no_comments" \in call.flags
        THEN \A b \in MarkBytes : CountOf(write_to, b) = 0
        ELSE /\ \A c \in CommentsAfterAs :
                    Contains(AfterAs(call.data), c) => Contains(write_to, c)
             /\ \A b \in MarkBytes :
                    CountOf(write_to, b) = CountOf(AfterAs(call.data), b)

\* Comments before CREATE, in the declaration, after AS and in the body: the
\* first two are gone, the last two are there.
C33_Witness ==
    /\ call.method = "normalize"
    /\ call.flags = {"uppercase"}
    /\ call.data = "/* 1\n1 */ create /* 2 */ procedure p -- 2\nas /* 3 */\nx /* 4\n 4 */ y;\n"
    /\ pc = "returned"
    /\ write_to = "CREATE PROCEDURE P AS /* 3 */\nX /* 4\n 4 */ Y;\n\n\n/"
C33_WitnessNone ==
    /\ call.method = "normalize"
    /\ call.flags = {"no_comments"}
    /\ Contains(call.data, "/* 4 */")
    /\ pc = "returned"

\* C34: when a line comment between two tokens is dropped, because
\* no_comments is set or the comment starts before AS, the output has the
\* first token, whitespace, and the second token.
Separated(out, t1, t2) ==
    \E p \in 0..(Len(out) - Len(t1) - 1) :
        /\ Slice(out, p, p + Len(t1)) = t1
        /\ IsSpace(ByteAt(out, p + Len(t1)))
        /\ startswith(lstrip(Slice(out, p + Len(t1), Len(out))), t2)
Dropped(flags, g) == "no_comments" \in flags \/ g.t2 \in {"PROCEDURE", "P", "AS"}
C34_NotGlued ==
    (call.method = "normalize" /\ pc = "returned") =>
        \A g \in Glued, gap \in GlueGaps, comment \in GlueComments :
            (call.data = GlueText(g, gap, comment) /\ Dropped(call.flags, g)) =>
                /\ ~Contains(write_to, "--")
                /\ Separated(Upper(write_to), g.t1, g.t2)

\* A comment dropped between two statements of the body, whitespace is not
\* collapsed: the newline is what separates them.
C34_Witness ==
    /\ call.method = "normalize"
    /\ call.flags = {"no_comments"}
    /\ call.data = "create procedure p as\nx; --c\ny;\n"
    /\ pc = "returned"
    /\ write_to = "CREATE PROCEDURE P AS\nx;\ny;\n\n\n/"

\* C35: where a line ends with a token and the next starts with one, in the
\* declaration or with no_spaces, the output has the two tokens with one
\* space between them, written by the lines or put in by normalize; in the
\* body without no_spaces it has between them what the input has.
Between(s, t1, t2) ==
    {Slice(s, p + Len(t1), q) : p \in 0..Len(s), q \in 0..Len(s)} \cap
    {Slice(s, p + Len(t1), q) : p \in {p \in 0..Len(s) : Slice(s, p, p + Len(t1)) = t1},
                                q \in {q \in 0..Len(s) : Slice(s, q, q + Len(t2)) = t2
                                                          /\ strip(Slice(s, q - 1, q)) = ""}}
JoinedAt(j) ==
    IF j.declaration \/ "no_spaces" \in call.flags
    THEN Contains(Upper(write_to), j.t1 \o " " \o j.t2)
    ELSE j.inside \/ \E b \in Between(Upper(call.data), j.t1, j.t2) :
                        Contains(Upper(write_to), j.t1 \o b \o j.t2)
C35_Joined ==
    (call.method = "normalize" /\ pc = "returned") =>
        \A j \in Joints : call.data = j.text => JoinedAt(j)

\* What does hold: the claim for the lines read with no context open.
C35_JoinedOutside ==
    (call.method = "normalize" /\ pc = "returned") =>
        \A j \in Joints : (call.data = j.text /\ ~j.inside) => JoinedAt(j)

\* C36 as claimed: after WRAPPED a line without a declaration keyword is
\* written as the content filter returns it for code in the current state
\* (nothing with comments_only), and the markers in it open no context.
DeclarationWords ==
    {"create", "or", "replace", "function", "procedure", "package", "body",
     "trigger", "as", "is", "wrapped"}
ReadsWrapped == Reads /\ self.wrapped /\ ~HasWord(line', DeclarationWords)
Unix(l) ==
    IF Len(l) >= 2 /\ Slice(l, Len(l) - 2, Len(l)) = "\r\n"
    THEN Slice(l, 0, Len(l) - 2) \o "\n" ELSE l
C36_FilteredStep ==
    ReadsWrapped =>
        /\ pc' \in {"wrote", "eof"}
        /\ write_to' = iteration_write(self, loop, self.as_found, self.wrapped, FALSE,
                                       filter_content(self, Unix(line')).ret)
        /\ LexicalFields(self') = LexicalFields(self)
C36_OpaqueStep ==
    ReadsWrapped =>
        /\ pc' \in {"wrote", "eof"}
        /\ write_to' = IF "comments_only" \in call.flags THEN ""
                       ELSE IF "no_spaces" \in call.flags THEN lstrip(Unix(line'))
                       ELSE Unix(line')
        /\ self' = self
C36_WitnessMarkers ==
    /\ pc = "wrote"
    /\ self.wrapped
    /\ line = "'x -- /*\n"
    /\ write_to = line
    /\ parsecontext(self) = None
C36_WitnessEmpty ==
    /\ "comments_only" \in call.flags
    /\ pc = "wrote"
    /\ self.wrapped
    /\ line = "ab\n"
    /\ write_to = ""

\* C37: as_found and wrapped are never both set; a line read in a pass, the
\* line that makes normalize raise included, never clears create_found,
\* as_found or wrapped; and with wrapped set it changes no declaration flag,
\* not the object type or name, and opens no context. (A predicate that
\* catches the error of its pass resets the instance; that step ends the
\* pass and is not one of these.)
C37_Exclusive == ~(self.as_found /\ self.wrapped)
NamedFields(s) == <<LexicalFields(s), s.object_name>>
C37_Step ==
    (Reads /\ pc' \in {"wrote", "eof", "raised"}) =>
        /\ self.create_found => self'.create_found
        /\ self.as_found => self'.as_found
        /\ self.wrapped => self'.wrapped
        /\ self.wrapped => NamedFields(self') = NamedFields(self)
C37_Monotone == [][C37_Step]_vars
C37_Phases == []C37_Exclusive /\ C37_Monotone
C37_Witness ==
    /\ call.method = "normalize"
    /\ pc = "wrote"
    /\ self.wrapped
    /\ loop.lines = 3
    /\ line = "'\n"
C37_WitnessAs ==
    /\ pc = "raised"
    /\ self.as_found
    /\ ~self.wrapped
    /\ line = "wrapped\n"
C37_WitnessRaised ==
    /\ pc = "raised"
    /\ self.wrapped
    /\ ~self.as_found
    /\ line = "as\n"

\* C38: _normalize_line on a line of n bytes needs at most n + 1 frames, the
\* one that returns on the empty rest included, also when a newline is put
\* back before the rest after a closed comment: it ends, whatever the state
\* and the flags.
C38_Bounded ==
    call.method = "_normalize_line" =>
        /\ pc \in {"returned", "raised"}
        /\ loop.frames <= Len(call.data) + 1
        /\ exc # RecursionError
C38_Witness ==
    /\ call.method = "_normalize_line"
    /\ call.data = "''''''\n"
    /\ call.kind = "create procedure p as\n"
    /\ loop.frames = 7
    /\ pc = "returned"
C38_WitnessPutBack ==
    /\ call.method = "_normalize_line"
    /\ call.data = "'' --\n"
    /\ call.kind = "create procedure\n"
    /\ loop.frames = 5
    /\ pc = "returned"
    /\ ret = "'' "

\* C39: after each object decoded the declaration buffer is given exactly
\* the bytes read beyond that object's payload, nothing if none were read,
\* never what was read beyond an earlier object's payload.
C39_Reset ==
    call.method = "unwrap_buf" =>
        /\ pc = "returned"
        /\ Len(loop.resets) = 2
        /\ \A i \in 1..2 : loop.resets[i].decl = loop.resets[i].beyond

\* What the code does: the buffer is given the bytes read beyond the payload
\* of the last object that had any.
RECURSIVE LastBeyond(_, _)
LastBeyond(resets, i) ==
    IF i = 0 THEN ""
    ELSE IF resets[i].beyond # "" THEN resets[i].beyond
    ELSE LastBeyond(resets, i - 1)
C39_Stale ==
    call.method = "unwrap_buf" =>
        /\ pc = "returned"
        /\ Len(loop.resets) = 2
        /\ \A i \in 1..2 : loop.resets[i].decl = LastBeyond(loop.resets, i)
C39_WitnessStale ==
    /\ call.method = "unwrap_buf"
    /\ pc = "returned"
    /\ Len(loop.resets) = 2
    /\ loop.resets[1].beyond = EndingText \o "\n"
    /\ loop.resets[2].beyond = ""
    /\ loop.resets[2].decl = EndingText \o "\n"

\* C40: the block unwrap returns starts with CREATE [OR REPLACE] and the type
\* in upper case with single spaces, then one space, then, when the name has
\* a dot, the name up to its first dot outside double quotes and a dot, then
\* the source after its type.
CreateUpper(c) == IF Len(c) = Len("create") THEN "CREATE" ELSE "CREATE OR REPLACE"
Prefixed(c, pkg, n) ==
    CreateUpper(c) \o " "
    \o Upper(Slice(Declared(pkg.source), 0, Len(Declared(pkg.source)) - 2)) \o " "
    \o (IF Contains(n.name, ".") THEN n.schema \o "." ELSE "")
    \o Slice(pkg.source, Len(Declared(pkg.source)) - 1, Len(pkg.source)) \o "\n"
C40_Prefix ==
    call.method = "unwrap_buf" =>
        \A c \in SchemaCreates, pkg \in Packages, n \in SchemaNames :
            call.data = SchemaText(c, pkg, n) =>
                pc = "returned" /\ ret = Prefixed(c, pkg, n)
C40_Witness ==
    /\ call.method = "unwrap_buf"
    /\ pc = "returned"
    /\ ret = "CREATE OR REPLACE PACKAGE BODY \"S.T\".p as end;\n"
C40_WitnessNoDot ==
    /\ call.method = "unwrap_buf"
    /\ pc = "returned"
    /\ Contains(call.data, "Or\tReplace procedure p wrapped")
    /\ ret = "CREATE OR REPLACE PROCEDURE p as begin null; end;\n"

====
